---- MODULE Spec2Model ----
(***************************************************************************)
(* A model of the LSM core of the key-value store: the memtable            *)
(* (src/src/lsm/memtable.rs), the write-ahead log (src/src/lsm/wal.rs),    *)
(* the manifest (src/src/lsm/manifest.rs), and of an SSTable the Bloom     *)
(* filter (src/src/lsm/sstable/bloom.rs) and the data block                *)
(* (src/src/lsm/sstable/block.rs).                                         *)
(*                                                                         *)
(* Each component has its own specification over the same variables; a    *)
(* specification leaves the variables of the other components unchanged.   *)
(***************************************************************************)
EXTENDS Integers, Sequences, FiniteSets, TLC

VARIABLES
    \* ---- Memtable (memtable.rs) ----
    mt_data,        \* BTreeMap<Vec<u8>, MemtableEntry>: a function on the keys present
    mt_size,        \* size: usize
    mt_max_size,    \* max_size: usize
    mt_seq_num,     \* seq_num: u64
    mt_log,         \* history: the put/delete calls made so far, in order
    mt_range,       \* history: the last call of range: [op, start, end, returned]
    mt_lost,        \* history: the memtable a crash destroyed: [data, log]
    \* ---- Write-ahead log (wal.rs) ----
    wal_file,       \* the bytes of the segment file, as a reader of the file sees them
    wal_durable,    \* how many leading bytes of wal_file an fsync has made durable
    wal_offset,     \* WalWriter.offset: u64
    wal_log,        \* history: the entries appended so far, in order
    wal_synced,     \* history: how many entries were appended before the last sync
    wal_mode,       \* "write" while the writer is open; afterwards what ended the writing
    wal_mark,       \* history: the record the ending event touched (0: none)
    rd_pos,         \* WalReader: the position of its BufReader in the file
    rd_results,     \* history: what each call of WalReader::next returned, in order
    wal_dropped,    \* history: for each call of truncate, how many entries the segment held
    \* ---- Manifest (manifest.rs) ----
    man,            \* the Manifest in memory: version, levels, next_sstable_id, wal_seq
    man_before,     \* history: the manifest as it was before the last call on it
    man_calls,      \* history: how many calls were made
    man_call,       \* history: the last call: [op, its arguments, what it returned]
    ids_out,        \* history: what the calls of next_sstable_id returned, in order
    seqs_out,       \* history: what the calls of next_wal_seq returned, in order
    man_path,       \* the path given to save and load
    fs_dir,         \* the directory as the running system sees it: name -> inode, 0: none
    fs_dir_dur,     \* the directory as it is on disk
    fs_inodes,      \* inode -> [data: the bytes written, dur: the bytes on disk]
    save_pc,        \* where save is: "idle" (not in save), the step it has done, "down"
    save_count,     \* history: how many saves were begun
    saved,          \* history: the manifest the last completed save wrote (or NoManifest)
    pre_save,       \* history: what load(path) returned when the save in progress began
    load_result,    \* what the last load returned
    load_after,     \* history: "none", "save" (a load after a completed save), "crash"
    \* ---- Bloom filter (sstable/bloom.rs) ----
    bf_bits,        \* bits: Vec<u8>
    bf_num_hashes,  \* num_hashes: u32
    bf_added,       \* history: the keys given to add, in order
    bf_query,       \* history: the last may_contain call, or << >>: its key, its
                    \* answer, and whether the key had been added before it
    \* ---- Data block (sstable/block.rs) ----
    bb_data,            \* BlockBuilder.data: Vec<u8>
    bb_restart_points,  \* BlockBuilder.restart_points: Vec<u32>
    bb_counter,         \* BlockBuilder.counter: entries since the last restart point
    bb_restart_interval,\* BlockBuilder.restart_interval
    bb_pc,              \* "build" while the builder lives, "sealed" after finish
    bb_log,             \* history: the (key, value) pairs add accepted, in order
    bb_value_len,       \* input: the length of the values of most entries of the run
    bb_returned,        \* history: what the last call of add returned ("none" before)
    blk_bytes,          \* the bytes given to Block::from_bytes
    blk,                \* what Block::from_bytes made of blk_bytes
    blk_get,            \* history: what Block::get returned for each key asked, or << >>
    it_offset,          \* BlockIterator.current_offset
    it_results,         \* history: what the calls of BlockIterator::next returned
    \* ---- Configuration (config.rs) ----
    cfg,                \* struct LSMConfig (the fields max_level_size reads, and max_levels)
    cfg_size            \* history: the last call of max_level_size, its level and outcome

memVars == <<mt_data, mt_size, mt_max_size, mt_seq_num, mt_log, mt_range, mt_lost>>

walVars == <<wal_file, wal_durable, wal_offset, wal_log, wal_synced, wal_mode,
             wal_mark, rd_pos, rd_results, wal_dropped>>

manVars == <<man, man_before, man_calls, man_call, ids_out, seqs_out>>

fsVars == <<man_path, fs_dir, fs_dir_dur, fs_inodes, save_pc, save_count, saved,
            pre_save, load_result, load_after>>

bloomVars == <<bf_bits, bf_num_hashes, bf_added, bf_query>>

blockVars == <<bb_data, bb_restart_points, bb_counter, bb_restart_interval, bb_pc,
               bb_log, bb_value_len, bb_returned, blk_bytes, blk, blk_get, it_offset,
               it_results>>

sstVars == <<bloomVars, blockVars>>

cfgVars == <<cfg, cfg_size>>

vars == <<memVars, walVars, manVars, fsVars, sstVars, cfgVars>>

----------------------------------------------------------------------------
\* Byte strings: sequences of numbers in 0..255.

\* Keys given to the memtable (the empty key is permitted).
Keys == {<<>>, <<97>>, <<97, 98>>}

\* Values given to the memtable (the empty value is permitted).
Values == {<<>>, <<120>>, <<120, 121>>}

\* Option<Vec<u8>>
None == [some |-> FALSE, val |-> <<>>]
Some(v) == [some |-> TRUE, val |-> v]

\* The member of a set of one member. Only({F(x) : x \in {e}}) is F of e with e
\* computed once, as a let binding of the code is (a name defined by LET is
\* computed again wherever it is used).
Only(S) == CHOOSE r \in S : TRUE

\* a < b on byte slices: unsigned lexicographic order
RECURSIVE slice_lt(_, _)
slice_lt(a, b) ==
    IF b = << >> THEN FALSE
    ELSE IF a = << >> THEN TRUE
    ELSE IF Head(a) # Head(b) THEN Head(a) < Head(b)
    ELSE slice_lt(Tail(a), Tail(b))

\* a <= b on byte slices
slice_le(a, b) == a = b \/ slice_lt(a, b)

----------------------------------------------------------------------------
\* 32-bit words. TLC integers are 32-bit signed, so a u32 whose
\* bits are computed on (a checksum) is a pair <<low 16 bits, high 16 bits>>.

\* a ^ b on unsigned numbers below 2^16
RECURSIVE Xor(_, _)
Xor(a, b) ==
    IF a = 0 THEN b
    ELSE IF b = 0 THEN a
    ELSE ((a + b) % 2) + 2 * Xor(a \div 2, b \div 2)

\* a ^ b on u32
Xor32(a, b) == <<Xor(a[1], b[1]), Xor(a[2], b[2])>>

\* a >> 1 on u32
Shr1(a) == <<(a[1] \div 2) + 32768 * (a[2] % 2), a[2] \div 2>>

\* !a on u32
Not32(a) == <<65535 - a[1], 65535 - a[2]>>

\* w.to_le_bytes() of a u32 held as a pair
word_to_le_bytes(w) == <<w[1] % 256, w[1] \div 256, w[2] % 256, w[2] \div 256>>

\* u32::from_le_bytes(b) as a pair
word_from_le_bytes(b) == <<b[1] + 256 * b[2], b[3] + 256 * b[4]>>

\* n.to_le_bytes() of a u32 that is a length (below 2^31 in every run)
to_le_bytes(n) ==
    <<n % 256, (n \div 256) % 256, (n \div 65536) % 256, (n \div 16777216) % 256>>

\* Stands for every length of 2^31 or more: no buffer of a run is that long.
HUGE == 2147483646 + 1

\* u32::from_le_bytes(b) as usize, for a length
from_le_bytes(b) ==
    IF b[4] >= 128 THEN HUGE
    ELSE b[1] + 256 * b[2] + 65536 * b[3] + 16777216 * b[4]

\* The state of the write-ahead log in the specifications that do not use it.
WalIdle ==
    /\ wal_file = << >>
    /\ wal_durable = 0
    /\ wal_offset = 0
    /\ wal_log = << >>
    /\ wal_synced = 0
    /\ wal_mode = "idle"
    /\ wal_mark = 0
    /\ rd_pos = 0
    /\ rd_results = << >>
    /\ wal_dropped = << >>

\* The state of the manifest and its files in the specifications that do not
\* use them.
ManIdle ==
    /\ man = << >>
    /\ man_before = << >>
    /\ man_calls = 0
    /\ man_call = [op |-> "none"]
    /\ ids_out = << >>
    /\ seqs_out = << >>
    /\ man_path = << >>
    /\ fs_dir = << >>
    /\ fs_dir_dur = << >>
    /\ fs_inodes = << >>
    /\ save_pc = "unused"
    /\ save_count = 0
    /\ saved = << >>
    /\ pre_save = << >>
    /\ load_result = << >>
    /\ load_after = "none"

\* The state of the Bloom filter and of the block in the specifications that do
\* not use them.
BloomIdle ==
    /\ bf_bits = << >>
    /\ bf_num_hashes = 0
    /\ bf_added = << >>
    /\ bf_query = << >>

BlockIdle ==
    /\ bb_data = << >>
    /\ bb_restart_points = << >>
    /\ bb_counter = 0
    /\ bb_restart_interval = 0
    /\ bb_pc = "unused"
    /\ bb_log = << >>
    /\ bb_value_len = 0
    /\ bb_returned = "none"
    /\ blk_bytes = << >>
    /\ blk = << >>
    /\ blk_get = << >>
    /\ it_offset = 0
    /\ it_results = << >>

SstIdle == BloomIdle /\ BlockIdle

\* The state of the configuration in the specifications that do not use it.
CfgIdle ==
    /\ cfg = [op |-> "none"]
    /\ cfg_size = [op |-> "none"]

----------------------------------------------------------------------------
\* Memtable

\* The number of put/delete calls a run makes.
MaxMemOps == 4

\* The max_size values a memtable is constructed with.
MemMaxSizes == {30, 60}

\* The fixed per-entry overhead of the size estimate.
ENTRY_OVERHEAD == 24

\* Memtable::new(max_size)
MemInit ==
    /\ mt_data = << >>
    /\ mt_size = 0
    /\ mt_max_size \in MemMaxSizes
    /\ mt_seq_num = 0
    /\ mt_log = << >>
    /\ mt_range = [op |-> "none"]
    /\ mt_lost = [data |-> << >>, log |-> << >>]

\* BTreeMap::insert(key, entry): the entry of key is replaced, or added.
MapInsert(map, key, entry) ==
    [k \in (DOMAIN map) \cup {key} |-> IF k = key THEN entry ELSE map[k]]

\* Memtable::get(key): Option<&MemtableEntry>
MemGet(key) ==
    IF key \in DOMAIN mt_data THEN Some(mt_data[key]) ELSE None

\* Memtable::put, with the insert keeping an entry that is already there.
put_keep_old(key, value) ==
    /\ mt_seq_num' = mt_seq_num + 1
    /\ mt_data' = IF key \in DOMAIN mt_data
                  THEN mt_data
                  ELSE MapInsert(mt_data, key,
                                 [value |-> Some(value), seq_num |-> mt_seq_num + 1])
    /\ mt_size' = mt_size
    /\ mt_log' = Append(mt_log, [op |-> "put", key |-> key, value |-> value])
    /\ UNCHANGED <<mt_max_size, mt_range, mt_lost>>

\* Memtable::put that follows the size of an overwritten value down as well
\* as up.
put_exact_size(key, value) ==
    LET entry == [value |-> Some(value), seq_num |-> mt_seq_num + 1]
        size_delta ==
            IF key \in DOMAIN mt_data
            THEN LET old_entry == mt_data[key]
                     old_value_size == IF old_entry.value.some
                                       THEN Len(old_entry.value.val) ELSE 0
                 IN  Len(value) - old_value_size
            ELSE Len(key) + Len(value) + ENTRY_OVERHEAD
    IN  /\ mt_seq_num' = mt_seq_num + 1
        /\ mt_data' = MapInsert(mt_data, key, entry)
        /\ mt_size' = mt_size + size_delta
        /\ mt_log' = Append(mt_log, [op |-> "put", key |-> key, value |-> value])
        /\ UNCHANGED <<mt_max_size, mt_range, mt_lost>>

\* Memtable::put(key, value)
put(key, value) ==
    LET entry == [value |-> Some(value), seq_num |-> mt_seq_num + 1]
        size_delta ==
            IF key \in DOMAIN mt_data
            THEN LET old_entry == mt_data[key]
                     old_value_size == IF old_entry.value.some
                                       THEN Len(old_entry.value.val) ELSE 0
                     new_value_size == Len(value)
                 IN  IF new_value_size > old_value_size
                     THEN new_value_size - old_value_size
                     ELSE 0
            ELSE Len(key) + Len(value) + ENTRY_OVERHEAD
    IN  /\ mt_seq_num' = mt_seq_num + 1
        /\ mt_data' = MapInsert(mt_data, key, entry)
        /\ mt_size' = mt_size + size_delta
        /\ mt_log' = Append(mt_log, [op |-> "put", key |-> key, value |-> value])
        /\ UNCHANGED <<mt_max_size, mt_range, mt_lost>>

\* Memtable::delete that stores the tombstone under the current seq_num.
delete_same_seq(key) ==
    /\ mt_seq_num' = mt_seq_num
    /\ mt_data' = MapInsert(mt_data, key, [value |-> None, seq_num |-> mt_seq_num])
    /\ mt_size' = mt_size
    /\ mt_log' = Append(mt_log, [op |-> "delete", key |-> key, value |-> <<>>])
    /\ UNCHANGED <<mt_max_size, mt_range, mt_lost>>

\* Memtable::delete(key)
delete(key) ==
    LET entry == [value |-> None, seq_num |-> mt_seq_num + 1]
        size_delta == IF key \in DOMAIN mt_data THEN 0 ELSE Len(key) + ENTRY_OVERHEAD
    IN  /\ mt_seq_num' = mt_seq_num + 1
        /\ mt_data' = MapInsert(mt_data, key, entry)
        /\ mt_size' = mt_size + size_delta
        /\ mt_log' = Append(mt_log, [op |-> "delete", key |-> key, value |-> <<>>])
        /\ UNCHANGED <<mt_max_size, mt_range, mt_lost>>

\* Memtable::is_full()
is_full == mt_size >= mt_max_size

\* Memtable::seq_num()
seq_num == mt_seq_num

MemPut ==
    /\ Len(mt_log) < MaxMemOps
    /\ \E key \in Keys, value \in Values : put(key, value)
    /\ UNCHANGED <<cfgVars, walVars, manVars, fsVars, sstVars>>

MemDelete ==
    /\ Len(mt_log) < MaxMemOps
    /\ \E key \in Keys : delete(key)
    /\ UNCHANGED <<cfgVars, walVars, manVars, fsVars, sstVars>>

Init == CfgIdle /\ MemInit /\ WalIdle /\ ManIdle /\ SstIdle

Next == MemPut \/ MemDelete

Spec == Init /\ [][Next]_vars

\* The keys of a BTreeMap in its order: ascending byte order.
RECURSIVE map_keys(_)
map_keys(keys) ==
    IF keys = {} THEN << >>
    ELSE LET first == CHOOSE k \in keys : \A other \in keys : slice_le(k, other)
         IN  <<first>> \o map_keys(keys \ {first})

\* What the iterator of range returns when it is collected, or that the call
\* panicked.
RangeItems(items) == [kind |-> "Ok", items |-> items]
RangePanic == [kind |-> "Panic", items |-> << >>]

\* Memtable::range(start, end) = BTreeMap::range(start..end), collected.
\* BTreeMap::range panics when the start of the range is above its end.
range(start, end) ==
    IF slice_lt(end, start) THEN RangePanic
    ELSE RangeItems(
             [i \in 1..Len(SelectSeq(map_keys(DOMAIN mt_data),
                                     LAMBDA k : slice_le(start, k) /\ slice_lt(k, end)))
                 |-> LET key == SelectSeq(map_keys(DOMAIN mt_data),
                                          LAMBDA k : slice_le(start, k) /\ slice_lt(k, end))[i]
                     IN  [key |-> key, entry |-> mt_data[key]]])

\* The bounds given to range: the keys of the runs and a key above them all.
RangeBounds == Keys \cup {<<98>>}

\* The number of put/delete calls of a run that asks for a range.
MaxOpsWithRange == 3

\* No range was asked for, and fewer than that many calls were made.
RangeNotAsked == mt_range.op = "none" /\ Len(mt_log) < MaxOpsWithRange

MemRange ==
    /\ mt_range.op = "none"
    /\ \E start \in RangeBounds, end \in RangeBounds :
          mt_range' = [op |-> "range", start |-> start, end |-> end,
                       returned |-> range(start, end)]
    /\ UNCHANGED <<mt_data, mt_size, mt_max_size, mt_seq_num, mt_log, mt_lost>>
    /\ UNCHANGED <<cfgVars, walVars, manVars, fsVars, sstVars>>

InitMemRange == CfgIdle /\ MemInit /\ mt_max_size = 60 /\ WalIdle /\ ManIdle /\ SstIdle

NextMemRange ==
    \/ RangeNotAsked /\ MemPut
    \/ RangeNotAsked /\ MemDelete
    \/ MemRange

\* put and delete calls, then one call of range.
SpecMemRange == InitMemRange /\ [][NextMemRange]_vars

----------------------------------------------------------------------------
\* Claims about the memtable

\* The calls of the history that were made on key k, as indices into mt_log.
OpsOn(k) == {i \in 1..Len(mt_log) : mt_log[i].key = k}

\* The last call made on key k (k has at least one).
LastOpOn(k) == mt_log[CHOOSE i \in OpsOn(k) : \A j \in OpsOn(k) : j <= i]

\* C1: after any sequence of put and delete calls, get(k) is the value of the
\* last put on k when the last call on k was a put, a tombstone (an entry with
\* no value) when it was a delete, and no entry when k was never put or deleted.
C1_ReadYourWrites ==
    \A k \in Keys :
        IF OpsOn(k) = {}
        THEN MemGet(k) = None
        ELSE /\ MemGet(k).some
             /\ MemGet(k).val.value =
                    IF LastOpOn(k).op = "put" THEN Some(LastOpOn(k).value) ELSE None

\* In one run: a key overwritten by a second put, a key deleted after a put,
\* and a key never touched.
C1_Witness ==
    /\ \E k \in Keys :
          /\ Cardinality(OpsOn(k)) >= 2
          /\ LastOpOn(k).op = "put"
          /\ \E i \in OpsOn(k) : mt_log[i].op = "put" /\ mt_log[i].value # LastOpOn(k).value
          /\ MemGet(k).val.value = Some(LastOpOn(k).value)
    /\ \E k \in Keys :
          /\ Cardinality(OpsOn(k)) >= 2
          /\ LastOpOn(k).op = "delete"
          /\ MemGet(k).val.value = None
    /\ \E k \in Keys : OpsOn(k) = {} /\ MemGet(k) = None

\* The seq_num a call stored: that of the entry under the key of the last call.
StoredByLastCall == mt_data[mt_log[Len(mt_log)].key].seq_num

\* C11: the seq_num stored by each put or delete is strictly greater than the
\* seq_num stored by every earlier call (those still in the map and the one of
\* the call before, which seq_num() gave), and after the call seq_num() is the
\* seq_num the call stored.
C11_SeqNumStrictlyIncreases ==
    [][ /\ \A k \in DOMAIN mt_data : StoredByLastCall' > mt_data[k].seq_num
        /\ StoredByLastCall' > seq_num
        /\ seq_num' = StoredByLastCall' ]_vars

\* Three or more calls, the last an overwrite of a key already there, one a
\* delete of a key that was absent; the entries hold distinct seq_nums and the
\* newest is seq_num().
C11_Witness ==
    /\ Len(mt_log) >= 3
    /\ Cardinality(OpsOn(mt_log[Len(mt_log)].key)) >= 2
    /\ \E k \in Keys :
          /\ OpsOn(k) # {}
          /\ \E i \in OpsOn(k) : mt_log[i].op = "delete" /\ \A j \in OpsOn(k) : i <= j
    /\ seq_num = StoredByLastCall
    /\ \A k \in DOMAIN mt_data : mt_data[k].seq_num <= seq_num
    /\ \A j, k \in DOMAIN mt_data : j # k => mt_data[j].seq_num # mt_data[k].seq_num

----------------------------------------------------------------------------
\* Write-ahead log

\* The number of entries a run appends to the segment.
MaxAppends == 2

\* The keys and values of the entries appended (both may be empty).
WalKeys == {<<>>, <<97>>, <<97, 98>>}
WalValues == {<<>>, <<120>>}

\* enum WalEntry
PutEntry(key, value) == [type |-> "Put", key |-> key, value |-> value]
DeleteEntry(key) == [type |-> "Delete", key |-> key]
WalEntries ==
    {PutEntry(k, v) : k \in WalKeys, v \in WalValues} \cup {DeleteEntry(k) : k \in WalKeys}

OP_PUT == 1
OP_DELETE == 2
POLYNOMIAL == <<33568, 60856>>       \* 0xEDB88320: low half 0x8320, high half 0xEDB8

\* The inner loop of crc32: eight shift steps on the register.
RECURSIVE crc_shift(_, _)
crc_shift(crc, n) ==
    IF n = 0 THEN crc
    ELSE crc_shift(IF crc[1] % 2 # 0 THEN Xor32(Shr1(crc), POLYNOMIAL) ELSE Shr1(crc),
                   n - 1)

\* The outer loop of crc32 over data[i..], from register crc. (The test of c
\* only makes TLC compute the register before it goes on.)
RECURSIVE crc_bytes(_, _, _)
crc_bytes(crc, data, i) ==
    IF i > Len(data) THEN crc
    ELSE LET c == crc_shift(Xor32(crc, <<data[i], 0>>), 8)
         IN  IF c[1] >= 0 THEN crc_bytes(c, data, i + 1) ELSE c

\* crc32(data): the register starts at 0xFFFFFFFF and is complemented at the end.
crc32_loop(data) == Not32(crc_bytes(<<65535, 65535>>, data, 1))

\* The bytes the checksum of an entry's record covers: op, key_len, val_len,
\* key, value.
CheckedBytes(entry) ==
    <<IF entry.type = "Put" THEN OP_PUT ELSE OP_DELETE>>
        \o to_le_bytes(Len(entry.key))
        \o to_le_bytes(IF entry.type = "Put" THEN Len(entry.value) ELSE 0)
        \o entry.key
        \o (IF entry.type = "Put" THEN entry.value ELSE << >>)

\* The checksums of the byte strings a run meets most, computed once: crc32 is
\* a function of its argument, so looking one up changes no result.
CRC32_KNOWN ==
    {<<data, crc32_loop(data)>> : data \in {CheckedBytes(e) : e \in WalEntries} \cup {<< >>}}

\* crc32(data)
crc32(data) ==
    IF \E known \in CRC32_KNOWN : known[1] = data
    THEN (CHOOSE known \in CRC32_KNOWN : known[1] = data)[2]
    ELSE crc32_loop(data)

\* encode_entry with the two length fields written in the wrong order.
encode_entry_swapped(entry) ==
    LET op_type == IF entry.type = "Put" THEN OP_PUT ELSE OP_DELETE
        key == entry.key
        value == IF entry.type = "Put" THEN entry.value ELSE << >>
        body == <<op_type>> \o to_le_bytes(Len(value)) \o to_le_bytes(Len(key))
                    \o key \o value
    IN  word_to_le_bytes(crc32(body)) \o to_le_bytes(Len(body)) \o body

\* encode_entry(entry): [crc32][length][op][key_len][val_len][key][value].
\* The length field excludes the checksum and itself; the checksum covers
\* payload[4..], the bytes after the length field.
encode_entry(entry) ==
    LET op_type == IF entry.type = "Put" THEN OP_PUT ELSE OP_DELETE
        key == entry.key
        has_value == entry.type = "Put"
        key_len == Len(key)              \* as u32: lengths are below 2^32 in every run
        value_len == IF has_value THEN Len(entry.value) ELSE 0
        payload_size == 4 + 1 + 4 + 4 + Len(key) + value_len
        payload == to_le_bytes(payload_size - 4)
                       \o <<op_type>>
                       \o to_le_bytes(key_len)
                       \o to_le_bytes(value_len)
                       \o key
                       \o (IF has_value THEN entry.value ELSE << >>)
        checksum == crc32(SubSeq(payload, 5, Len(payload)))
    IN  word_to_le_bytes(checksum) \o payload

\* What WalReader::next returns.
RdEntry(e) == [kind |-> "Entry", entry |-> e]       \* Ok(Some(entry))
RdNone == [kind |-> "None"]                         \* Ok(None)
RdIo == [kind |-> "Io"]                             \* Err(WalError::Io)
RdCorrupted == [kind |-> "Corrupted"]               \* Err(WalError::Corrupted)
RdPanic == [kind |-> "Panic"]                       \* the call panics

\* The checksum test of decode_entry, never failing.
checksum_ok_always(expected_checksum, payload) == TRUE

\* The checksum test of decode_entry.
checksum_ok(expected_checksum, payload) == crc32(payload) = expected_checksum

\* decode_payload that takes every op byte other than OP_PUT for a Delete.
decode_payload_lenient(payload) ==
    LET length == Len(payload)
    IN  IF length < 9 THEN RdPanic
        ELSE LET op_type == payload[1]
                 key_len == from_le_bytes(SubSeq(payload, 2, 5))
                 value_len == from_le_bytes(SubSeq(payload, 6, 9))
                 cursor == 9
             IN  IF key_len > length - cursor THEN RdPanic
                 ELSE LET key == SubSeq(payload, cursor + 1, cursor + key_len)
                          after == cursor + key_len
                      IN  IF op_type = OP_PUT
                          THEN IF value_len > length - after THEN RdPanic
                               ELSE RdEntry(PutEntry(key,
                                        SubSeq(payload, after + 1, after + value_len)))
                          ELSE RdEntry(DeleteEntry(key))

\* decode_entry, the part after the checksum test: the fields of the payload.
\* An index or a slice past the end of the payload panics.
decode_payload(payload) ==
    LET length == Len(payload)
    IN  IF length < 9 THEN RdPanic
        ELSE LET op_type == payload[1]
                 key_len == from_le_bytes(SubSeq(payload, 2, 5))
                 value_len == from_le_bytes(SubSeq(payload, 6, 9))
                 cursor == 9
             IN  IF key_len > length - cursor THEN RdPanic
                 ELSE LET key == SubSeq(payload, cursor + 1, cursor + key_len)
                          after == cursor + key_len
                      IN  IF op_type = OP_PUT
                          THEN IF value_len > length - after THEN RdPanic
                               ELSE RdEntry(PutEntry(key,
                                        SubSeq(payload, after + 1, after + value_len)))
                          ELSE IF op_type = OP_DELETE
                          THEN RdEntry(DeleteEntry(key))
                          ELSE RdCorrupted

\* decode_entry(reader) on the bytes of file from position pos: what it returns
\* and where it leaves the reader. A read_exact that meets the end of the file
\* fails with UnexpectedEof, having consumed what was left.
decode_entry(file, pos) ==
    LET left == Len(file) - pos
    IN  IF left < 4 THEN [result |-> RdNone, pos |-> Len(file)]
        ELSE IF left < 8 THEN [result |-> RdIo, pos |-> Len(file)]
        ELSE LET expected_checksum == word_from_le_bytes(SubSeq(file, pos + 1, pos + 4))
                 length == from_le_bytes(SubSeq(file, pos + 5, pos + 8))
             IN  IF left - 8 < length THEN [result |-> RdIo, pos |-> Len(file)]
                 ELSE LET payload == SubSeq(file, pos + 9, pos + 8 + length)
                      IN  [result |-> IF checksum_ok(expected_checksum, payload)
                                      THEN decode_payload(payload)
                                      ELSE RdCorrupted,
                           pos |-> pos + 8 + length]

\* WalWriter::create(path) on a path that holds no file yet.
WalInit ==
    /\ wal_file = << >>
    /\ wal_durable = 0
    /\ wal_offset = 0
    /\ wal_log = << >>
    /\ wal_synced = 0
    /\ wal_mode = "write"
    /\ wal_mark = 0
    /\ rd_pos = 0
    /\ rd_results = << >>
    /\ wal_dropped = << >>

\* WalWriter::append(entry): the bytes go to the file, nothing is fsynced.
append(entry) ==
    LET bytes == encode_entry(entry)
    IN  /\ wal_file' = wal_file \o bytes
        /\ wal_offset' = wal_offset + Len(bytes)

\* WalWriter::sync that only flushes, making nothing durable.
sync_no_fsync == wal_durable' = wal_durable

\* WalWriter::sync(): file.sync_all()
sync == wal_durable' = Len(wal_file)

\* WalReader::next(): decode_entry from the reader's position.
next ==
    LET r == decode_entry(wal_file, rd_pos)
    IN  /\ rd_pos' = r.pos
        /\ rd_results' = Append(rd_results, r.result)

WalAppend ==
    /\ wal_mode = "write"
    /\ Len(wal_log) < MaxAppends
    /\ \E entry \in WalEntries :
          /\ append(entry)
          /\ wal_log' = Append(wal_log, entry)
    /\ UNCHANGED <<wal_durable, wal_synced, wal_mode, wal_mark, rd_pos, rd_results, wal_dropped>>
    /\ UNCHANGED <<cfgVars, memVars, manVars, fsVars, sstVars>>

WalSync ==
    /\ wal_mode = "write"
    /\ wal_synced < Len(wal_log)
    /\ sync
    /\ wal_synced' = Len(wal_log)
    /\ UNCHANGED <<wal_file, wal_offset, wal_log, wal_mode, wal_mark, rd_pos, rd_results, wal_dropped>>
    /\ UNCHANGED <<cfgVars, memVars, manVars, fsVars, sstVars>>

\* n bytes of zero
Zeros(n) == [i \in 1..n |-> 0]

\* The machine crashes: the durable bytes survive; of the bytes written after
\* the last fsync a prefix of any length reaches the disk, or the file was
\* extended by that length and the blocks were never written (they read as 0).
WalCrash ==
    /\ wal_mode = "write"
    /\ \E n \in 0..(Len(wal_file) - wal_durable), written \in BOOLEAN :
          wal_file' = SubSeq(wal_file, 1, wal_durable)
                          \o (IF written
                              THEN SubSeq(wal_file, wal_durable + 1, wal_durable + n)
                              ELSE Zeros(n))
    /\ wal_mode' = "crash"
    /\ UNCHANGED <<wal_durable, wal_offset, wal_log, wal_synced, wal_mark, rd_pos, rd_results, wal_dropped>>
    /\ UNCHANGED <<cfgVars, memVars, manVars, fsVars, sstVars>>

\* The calls of next a reader makes: enough to pass the end of the log twice.
MaxReads == MaxAppends + 2

WalReaderNext ==
    /\ wal_mode \notin {"idle", "write"}
    /\ Len(rd_results) < MaxReads
    /\ (IF rd_results = << >> THEN TRUE ELSE rd_results[Len(rd_results)] # RdPanic)
    /\ next
    /\ UNCHANGED <<wal_file, wal_durable, wal_offset, wal_log, wal_synced, wal_mode, wal_mark,
                   wal_dropped>>
    /\ UNCHANGED <<cfgVars, memVars, manVars, fsVars, sstVars>>

InitWal == CfgIdle /\ MemInit /\ mt_max_size = 60 /\ WalInit /\ ManIdle /\ SstIdle

NextWalCrash == WalAppend \/ WalSync \/ WalCrash \/ WalReaderNext

\* Appends and syncs, a crash, and a reader opened on the segment afterwards.
SpecWalCrash == InitWal /\ [][NextWalCrash]_vars

\* C2: after a crash, a reader of the segment returns, in append order, every
\* entry appended before the last successful sync, before it returns an
\* end of log or an error: its first wal_synced results are those entries.
C2_SyncedEntriesRecovered ==
    wal_mode = "crash" =>
        \A i \in 1..Len(rd_results) :
            i <= wal_synced => rd_results[i] = RdEntry(wal_log[i])

\* A crash with a synced entry and an unsynced one whose bytes were partly
\* lost; the reader has returned the synced entry and then something else.
C2_Witness ==
    /\ wal_mode = "crash"
    /\ wal_synced >= 1
    /\ Len(wal_log) > wal_synced
    /\ Len(wal_file) > wal_durable
    /\ Len(wal_file) < wal_offset
    /\ Len(rd_results) > wal_synced
    /\ rd_results[wal_synced] = RdEntry(wal_log[wal_synced])
    /\ rd_results[wal_synced + 1].kind # "Entry"

----------------------------------------------------------------------------
\* The record format: a segment written without a crash, then read as it is,
\* or with its last record cut short, or with one checksum field changed.

\* Where record i of the segment begins (records are numbered from 1).
RECURSIVE RecStart(_)
RecStart(i) == IF i = 1 THEN 0 ELSE RecStart(i - 1) + Len(encode_entry(wal_log[i - 1]))

\* The writer is dropped after its appends and the file is read as written.
WalClose ==
    /\ wal_mode = "write"
    /\ wal_mode' = "clean"
    /\ UNCHANGED <<wal_file, wal_durable, wal_offset, wal_log, wal_synced, wal_mark,
                   rd_pos, rd_results, wal_dropped>>
    /\ UNCHANGED <<cfgVars, memVars, manVars, fsVars, sstVars>>

\* The file ends inside its last record: n complete records and then a proper
\* prefix of one more (no byte of it, or a part of its checksum field, of its
\* length field or of its payload). wal_mark is n.
WalCut ==
    /\ wal_mode = "write"
    /\ Len(wal_log) >= 1
    /\ \E cut \in RecStart(Len(wal_log))..(Len(wal_file) - 1) :
          wal_file' = SubSeq(wal_file, 1, cut)
    /\ wal_mode' = "cut"
    /\ wal_mark' = Len(wal_log) - 1
    /\ UNCHANGED <<wal_durable, wal_offset, wal_log, wal_synced, rd_pos, rd_results, wal_dropped>>
    /\ UNCHANGED <<cfgVars, memVars, manVars, fsVars, sstVars>>

\* The bit patterns by which a checksum field is changed: each single bit, the
\* low byte (as the repository's test does), and all 32 bits.
Bits16 == {1, 2, 4, 8, 16, 32, 64, 128, 256, 512, 1024, 2048, 4096, 8192, 16384, 32768}
CrcMasks ==
    {<<b, 0>> : b \in Bits16} \cup {<<0, b>> : b \in Bits16}
        \cup {<<255, 0>>, <<65535, 65535>>}

\* The 4-byte checksum field of record i is changed by a mask. wal_mark is i.
WalFlip ==
    /\ wal_mode = "write"
    /\ \E i \in 1..Len(wal_log), mask \in CrcMasks :
          LET start == RecStart(i)
              stored == word_from_le_bytes(SubSeq(wal_file, start + 1, start + 4))
          IN  /\ wal_file' = SubSeq(wal_file, 1, start)
                                 \o word_to_le_bytes(Xor32(stored, mask))
                                 \o SubSeq(wal_file, start + 5, Len(wal_file))
              /\ wal_mark' = i
    /\ wal_mode' = "flip"
    /\ UNCHANGED <<wal_durable, wal_offset, wal_log, wal_synced, rd_pos, rd_results, wal_dropped>>
    /\ UNCHANGED <<cfgVars, memVars, manVars, fsVars, sstVars>>

NextWalCodec == WalAppend \/ WalClose \/ WalCut \/ WalFlip \/ WalReaderNext

SpecWalCodec == InitWal /\ [][NextWalCodec]_vars

\* C3: the entries appended are read back exactly: call number j of next returns
\* entry number j of the sequence appended, and every call after the last entry
\* returns Ok(None); so reading until Ok(None) yields the same sequence.
C3_RoundTrip ==
    wal_mode = "clean" =>
        \A j \in 1..Len(rd_results) :
            rd_results[j] = IF j <= Len(wal_log) THEN RdEntry(wal_log[j]) ELSE RdNone

\* Two entries, among them a Put with the empty key and the empty value and a
\* Delete, read back and followed by Ok(None).
C3_Witness ==
    /\ wal_mode = "clean"
    /\ Len(wal_log) >= 2
    /\ \E i \in 1..Len(wal_log) : wal_log[i] = PutEntry(<< >>, << >>)
    /\ \E i \in 1..Len(wal_log) : wal_log[i].type = "Delete"
    /\ Len(rd_results) = Len(wal_log) + 1
    /\ rd_results[Len(rd_results)] = RdNone
    /\ \A j \in 1..Len(wal_log) : rd_results[j] = RdEntry(wal_log[j])

\* C4: on a segment of n complete records and a proper prefix of one more, next
\* returns the n records in order and then Ok(None), never an error.
C4_PartialTailIsCleanEnd ==
    wal_mode = "cut" =>
        \A j \in 1..Len(rd_results) :
            rd_results[j] = IF j <= wal_mark THEN RdEntry(wal_log[j]) ELSE RdNone

\* C5: a record whose checksum field was changed in one or more bits decodes to
\* a Corrupted error, not to an entry.
C5_CrcFlipDetected ==
    (wal_mode = "flip" /\ Len(rd_results) >= wal_mark) =>
        rd_results[wal_mark] = RdCorrupted

\* The second record's checksum field was changed; the reader returned the
\* first record and then Corrupted.
C5_Witness ==
    /\ wal_mode = "flip"
    /\ wal_mark = 2
    /\ Len(rd_results) >= 2
    /\ rd_results[1] = RdEntry(wal_log[1])
    /\ rd_results[2] = RdCorrupted

----------------------------------------------------------------------------
\* Manifest: the operations on the manifest in memory

\* The number of mutating calls a run makes on the manifest.
MaxManCalls == 3

\* The max_levels values a manifest is constructed with.
MaxLevelsArgs == {0, 1, 2}

\* The level arguments and level fields of the calls (1 and 2 are not levels
\* of every manifest).
LevelArgs == {0, 1}

\* struct SSTableMetadata, with the path, size and num_entries of the tests
SSTableMetadata(id, level, min_key, max_key) ==
    [id |-> id, level |-> level, path |-> "sst.sst", size |-> 1024, num_entries |-> 10,
     min_key |-> min_key, max_key |-> max_key]

\* The metadata given to add_sstable and remove_sstables: ids 1 and 2, with the
\* key ranges [a, c] and [e, g] of the tests.
Metas ==
    {SSTableMetadata(1, l, <<97>>, <<99>>) : l \in LevelArgs}
        \cup {SSTableMetadata(2, l, <<101>>, <<103>>) : l \in LevelArgs}

\* The lists given to remove_sstables: up to two tables.
RemoveLists ==
    {<< >>} \cup {<<a>> : a \in Metas}
        \cup {list \in {<<a, b>> : a \in Metas, b \in Metas} : list[1] # list[2]}

\* Manifest::new with a loop that runs once more: max_levels + 1 levels.
ManifestNewOneMore(max_levels) ==
    [version |-> 1,
     levels |-> [level \in 1..(max_levels + 1) |-> [level |-> level - 1, sstables |-> << >>]],
     next_sstable_id |-> 1,
     wal_seq |-> 1]

\* Manifest::new(max_levels)
ManifestNew(max_levels) ==
    [version |-> 1,
     levels |-> [level \in 1..max_levels |-> [level |-> level - 1, sstables |-> << >>]],
     next_sstable_id |-> 1,
     wal_seq |-> 1]

\* Vec::retain(|s| s.id != id)
RECURSIVE retain_not_id(_, _)
retain_not_id(sstables, id) ==
    IF sstables = << >> THEN << >>
    ELSE (IF Head(sstables).id # id THEN <<Head(sstables)>> ELSE << >>)
             \o retain_not_id(Tail(sstables), id)

\* add_sstable that puts the table first in its level.
add_sstable_first(self, level, metadata) ==
    IF level < Len(self.levels)
    THEN [self EXCEPT !.levels[level + 1].sstables = <<metadata>> \o @,
                      !.version = @ + 1]
    ELSE self

\* Manifest::add_sstable(level, metadata): levels[level] is element level + 1
\* of the sequence.
add_sstable(self, level, metadata) ==
    IF level < Len(self.levels)
    THEN [self EXCEPT !.levels[level + 1].sstables = Append(@, metadata),
                      !.version = @ + 1]
    ELSE self

\* The loop of remove_sstables over sstables[i..].
RECURSIVE remove_loop(_, _, _)
remove_loop(levels, sstables, i) ==
    IF i > Len(sstables) THEN levels
    ELSE LET sst == sstables[i]
         IN  remove_loop(IF sst.level < Len(levels)
                         THEN [levels EXCEPT ![sst.level + 1].sstables =
                                                 retain_not_id(@, sst.id)]
                         ELSE levels,
                         sstables, i + 1)

\* Manifest::remove_sstables(sstables)
remove_sstables(self, sstables) ==
    [self EXCEPT !.levels = remove_loop(@, sstables, 1), !.version = @ + 1]

\* Manifest::get_level(level)
get_level(self, level) ==
    IF level < Len(self.levels) THEN self.levels[level + 1].sstables ELSE << >>

\* The filter of find_overlapping over the tables of a level, in their order.
RECURSIVE overlapping(_, _, _)
overlapping(sstables, min_key, max_key) ==
    IF sstables = << >> THEN << >>
    ELSE LET sst == Head(sstables)
         IN  (IF ~(slice_lt(sst.max_key, min_key) \/ slice_lt(max_key, sst.min_key))
              THEN <<sst>> ELSE << >>)
                 \o overlapping(Tail(sstables), min_key, max_key)

\* find_overlapping that leaves out a table whose range only touches the range
\* asked for.
RECURSIVE overlapping_open(_, _, _)
overlapping_open(sstables, min_key, max_key) ==
    IF sstables = << >> THEN << >>
    ELSE LET sst == Head(sstables)
         IN  (IF ~(slice_le(sst.max_key, min_key) \/ slice_le(max_key, sst.min_key))
              THEN <<sst>> ELSE << >>)
                 \o overlapping_open(Tail(sstables), min_key, max_key)

find_overlapping_open(self, level, min_key, max_key) ==
    IF level >= Len(self.levels) THEN << >>
    ELSE overlapping_open(self.levels[level + 1].sstables, min_key, max_key)

\* Manifest::find_overlapping(level, min_key, max_key)
find_overlapping(self, level, min_key, max_key) ==
    IF level >= Len(self.levels) THEN << >>
    ELSE overlapping(self.levels[level + 1].sstables, min_key, max_key)

\* Manifest::next_sstable_id, handing out the same id again (no increment).
next_sstable_id_stuck(self) == [id |-> self.next_sstable_id, self |-> self]

\* Manifest::next_sstable_id(): the id returned and the manifest afterwards.
next_sstable_id(self) ==
    [id |-> self.next_sstable_id, self |-> [self EXCEPT !.next_sstable_id = @ + 1]]

\* Manifest::next_wal_seq(): the sequence number returned and the manifest afterwards.
next_wal_seq(self) ==
    [seq |-> self.wal_seq, self |-> [self EXCEPT !.wal_seq = @ + 1]]

\* No call was made yet.
NoCall == [op |-> "none"]

\* The runs with saves keep no record of the last call.
NotRecorded == [op |-> "not recorded"]

\* The record of a call, in the runs that keep one.
Recorded(call) == IF man_call.op = NotRecorded.op THEN NotRecorded ELSE call

\* Whether the program is between two calls on the manifest (not inside save).
ManReady == save_pc \in {"unused", "idle"}

ManAddSstable ==
    /\ ManReady
    /\ man_calls < MaxManCalls
    /\ \E level \in LevelArgs, metadata \in Metas :
          /\ man' = add_sstable(man, level, metadata)
          /\ man_call' = Recorded([op |-> "add_sstable", level |-> level,
                                  metadata |-> metadata])
    /\ man_before' = man
    /\ man_calls' = man_calls + 1
    /\ UNCHANGED <<ids_out, seqs_out>>
    /\ UNCHANGED <<cfgVars, memVars, walVars, fsVars, sstVars>>

ManRemoveSstables ==
    /\ ManReady
    /\ man_calls < MaxManCalls
    /\ \E sstables \in RemoveLists :
          /\ man' = remove_sstables(man, sstables)
          /\ man_call' = Recorded([op |-> "remove_sstables", sstables |-> sstables])
    /\ man_before' = man
    /\ man_calls' = man_calls + 1
    /\ UNCHANGED <<ids_out, seqs_out>>
    /\ UNCHANGED <<cfgVars, memVars, walVars, fsVars, sstVars>>

ManNextSstableId ==
    /\ ManReady
    /\ man_calls < MaxManCalls
    /\ man' = next_sstable_id(man).self
    /\ ids_out' = Append(ids_out, next_sstable_id(man).id)
    /\ man_call' = Recorded([op |-> "next_sstable_id", returned |-> next_sstable_id(man).id])
    /\ man_before' = man
    /\ man_calls' = man_calls + 1
    /\ UNCHANGED seqs_out
    /\ UNCHANGED <<cfgVars, memVars, walVars, fsVars, sstVars>>

ManNextWalSeq ==
    /\ ManReady
    /\ man_calls < MaxManCalls
    /\ man' = next_wal_seq(man).self
    /\ seqs_out' = Append(seqs_out, next_wal_seq(man).seq)
    /\ man_call' = Recorded([op |-> "next_wal_seq", returned |-> next_wal_seq(man).seq])
    /\ man_before' = man
    /\ man_calls' = man_calls + 1
    /\ UNCHANGED ids_out
    /\ UNCHANGED <<cfgVars, memVars, walVars, fsVars, sstVars>>

\* The keys of the ranges asked of find_overlapping: below, at, between and
\* above the bounds a and c, e and g of the tables.
RangeKeys == {<< >>, <<97>>, <<99>>, <<99, 0>>, <<100>>, <<101>>, <<104>>}

ManFindOverlapping ==
    /\ ManReady
    /\ man_calls < MaxManCalls
    /\ \E level \in LevelArgs, min_key \in RangeKeys, max_key \in RangeKeys :
          man_call' = Recorded([op |-> "find_overlapping", level |-> level,
                                min_key |-> min_key, max_key |-> max_key,
                                returned |-> find_overlapping(man, level, min_key, max_key)])
    /\ man_before' = man
    /\ man_calls' = man_calls + 1
    /\ UNCHANGED <<man, ids_out, seqs_out>>
    /\ UNCHANGED <<cfgVars, memVars, walVars, fsVars, sstVars>>

\* A manifest fresh from Manifest::new, no file system in use.
ManInit ==
    /\ \E max_levels \in MaxLevelsArgs : man = ManifestNew(max_levels)
    /\ man_before = man
    /\ man_calls = 0
    /\ ids_out = << >>
    /\ seqs_out = << >>

FsUnused ==
    /\ man_path = << >>
    /\ fs_dir = << >>
    /\ fs_dir_dur = << >>
    /\ fs_inodes = << >>
    /\ save_pc = "unused"
    /\ save_count = 0
    /\ saved = << >>
    /\ pre_save = << >>
    /\ load_result = << >>
    /\ load_after = "none"

InitManifest ==
    CfgIdle /\ MemInit /\ mt_max_size = 60 /\ WalIdle /\ ManInit /\ man_call = NoCall /\ FsUnused
        /\ SstIdle

NextManifest ==
    ManAddSstable \/ ManRemoveSstables \/ ManNextSstableId \/ ManNextWalSeq
        \/ ManFindOverlapping

SpecManifest == InitManifest /\ [][NextManifest]_vars

\* The tables of every level of a manifest.
AllSstables(m) ==
    UNION {{m.levels[l].sstables[i] : i \in 1..Len(m.levels[l].sstables)} :
               l \in 1..Len(m.levels)}

\* C8: a call that changes any field of the manifest leaves version strictly
\* greater than it was before the call.
C8_VersionGrowsOnEveryMutation ==
    man # man_before => man.version > man_before.version

\* C9: next_sstable_id is strictly greater than the id of every table present
\* in any level.
C9_NextIdExceedsEveryId ==
    \A sst \in AllSstables(man) : man.next_sstable_id > sst.id

\* C10: the first call of next_sstable_id returns 1 and each later call one more
\* than the call before, whatever other calls come between; the same for
\* next_wal_seq. So call number i returns i, and no id is returned twice.
C10_AllocatorsCountFromOne ==
    /\ \A i \in 1..Len(ids_out) : ids_out[i] = i
    /\ \A i \in 1..Len(seqs_out) : seqs_out[i] = i

\* Two ids handed out with a call that changed the version between them.
C10_Witness ==
    /\ ids_out = <<1, 2>>
    /\ man.version > 1
    /\ man_before.next_sstable_id = 2
    /\ man.next_sstable_id = 3

----------------------------------------------------------------------------
\* Manifest: save and load, the files and a crash

\* The number of saves a run begins.
MaxSaves == 2

\* The number of mutating calls a run with saves makes on the manifest.
MaxCallsWithSave == 2

\* A path: the file stem and the extension after the last dot.
Path(stem, ext) == [stem |-> stem, ext |-> ext]

\* The paths given to save and load.
ManifestPaths == {Path("MANIFEST", "json"), Path("MANIFEST", "tmp")}

\* Path::with_extension(ext): the extension is replaced.
with_extension(path, ext) == [path EXCEPT !.ext = ext]

\* The file names of the directory.
FileNames == ManifestPaths \cup {with_extension(p, "tmp") : p \in ManifestPaths}

\* The text of a manifest file, as a sequence of JSON tokens.
Punct(s) == [t |-> "punct", s |-> s, n |-> 0]
Field(s) == [t |-> "field", s |-> s, n |-> 0]       \* "name":
Str(s) == [t |-> "string", s |-> s, n |-> 0]
Num(n) == [t |-> "number", s |-> "", n |-> n]

\* Vec<u8> is written as an array of numbers.
BytesJson(bytes) ==
    <<Punct("[")>> \o [i \in 1..Len(bytes) |-> Num(bytes[i])] \o <<Punct("]")>>

\* derive(Serialize) for SSTableMetadata
SstJson(m) ==
    <<Punct("{"), Field("id"), Num(m.id), Field("level"), Num(m.level),
      Field("path"), Str(m.path), Field("size"), Num(m.size),
      Field("num_entries"), Num(m.num_entries), Field("min_key")>>
        \o BytesJson(m.min_key) \o <<Field("max_key")>> \o BytesJson(m.max_key)
        \o <<Punct("}")>>

RECURSIVE SstListJson(_)
SstListJson(sstables) ==
    IF sstables = << >> THEN << >>
    ELSE SstJson(Head(sstables)) \o SstListJson(Tail(sstables))

\* derive(Serialize) for Level
LevelJson(l) ==
    <<Punct("{"), Field("level"), Num(l.level), Field("sstables"), Punct("[")>>
        \o SstListJson(l.sstables) \o <<Punct("]"), Punct("}")>>

RECURSIVE LevelListJson(_)
LevelListJson(levels) ==
    IF levels = << >> THEN << >>
    ELSE LevelJson(Head(levels)) \o LevelListJson(Tail(levels))

\* serde_json::to_string_pretty(self) for Manifest
to_string_pretty(self) ==
    <<Punct("{"), Field("version"), Num(self.version), Field("levels"), Punct("[")>>
        \o LevelListJson(self.levels)
        \o <<Punct("]"), Field("next_sstable_id"), Num(self.next_sstable_id),
             Field("wal_seq"), Num(self.wal_seq), Punct("}")>>

\* The parsers below read the text from token number pos and return
\* [ok, val, pos]: whether the text is well formed, the value read and the
\* number of the first token after it.
Bad == [ok |-> FALSE, val |-> << >>, pos |-> 0]
Good(val, pos) == [ok |-> TRUE, val |-> val, pos |-> pos]
At(text, pos, token) == pos <= Len(text) /\ text[pos] = token
IsNum(text, pos) == pos <= Len(text) /\ text[pos].t = "number"
IsStr(text, pos) == pos <= Len(text) /\ text[pos].t = "string"

\* the numbers of an array, up to its "]"
RECURSIVE ParseNums(_, _, _)
ParseNums(text, pos, acc) ==
    IF At(text, pos, Punct("]")) THEN Good(acc, pos + 1)
    ELSE IF IsNum(text, pos) THEN ParseNums(text, pos + 1, Append(acc, text[pos].n))
    ELSE Bad

ParseBytes(text, pos) ==
    IF At(text, pos, Punct("[")) THEN ParseNums(text, pos + 1, << >>) ELSE Bad

\* derive(Deserialize) for SSTableMetadata
ParseSst(text, pos) ==
    IF /\ At(text, pos, Punct("{"))
       /\ At(text, pos + 1, Field("id")) /\ IsNum(text, pos + 2)
       /\ At(text, pos + 3, Field("level")) /\ IsNum(text, pos + 4)
       /\ At(text, pos + 5, Field("path")) /\ IsStr(text, pos + 6)
       /\ At(text, pos + 7, Field("size")) /\ IsNum(text, pos + 8)
       /\ At(text, pos + 9, Field("num_entries")) /\ IsNum(text, pos + 10)
       /\ At(text, pos + 11, Field("min_key"))
    THEN LET min_key == ParseBytes(text, pos + 12)
         IN  IF min_key.ok /\ At(text, min_key.pos, Field("max_key"))
             THEN LET max_key == ParseBytes(text, min_key.pos + 1)
                  IN  IF max_key.ok /\ At(text, max_key.pos, Punct("}"))
                      THEN Good([id |-> text[pos + 2].n, level |-> text[pos + 4].n,
                                 path |-> text[pos + 6].s, size |-> text[pos + 8].n,
                                 num_entries |-> text[pos + 10].n,
                                 min_key |-> min_key.val, max_key |-> max_key.val],
                                max_key.pos + 1)
                      ELSE Bad
             ELSE Bad
    ELSE Bad

\* the tables of an array, up to its "]"
RECURSIVE ParseSsts(_, _, _)
ParseSsts(text, pos, acc) ==
    IF At(text, pos, Punct("]")) THEN Good(acc, pos + 1)
    ELSE LET rest(sst) ==
                 IF sst.ok THEN ParseSsts(text, sst.pos, Append(acc, sst.val)) ELSE Bad
         IN  Only({rest(x) : x \in {ParseSst(text, pos)}})

\* derive(Deserialize) for Level
ParseLevel(text, pos) ==
    IF /\ At(text, pos, Punct("{"))
       /\ At(text, pos + 1, Field("level")) /\ IsNum(text, pos + 2)
       /\ At(text, pos + 3, Field("sstables")) /\ At(text, pos + 4, Punct("["))
    THEN LET close(sstables) ==
                 IF sstables.ok /\ At(text, sstables.pos, Punct("}"))
                 THEN Good([level |-> text[pos + 2].n, sstables |-> sstables.val],
                           sstables.pos + 1)
                 ELSE Bad
         IN  Only({close(x) : x \in {ParseSsts(text, pos + 5, << >>)}})
    ELSE Bad

\* the levels of an array, up to its "]"
RECURSIVE ParseLevels(_, _, _)
ParseLevels(text, pos, acc) ==
    IF At(text, pos, Punct("]")) THEN Good(acc, pos + 1)
    ELSE LET rest(level) ==
                 IF level.ok THEN ParseLevels(text, level.pos, Append(acc, level.val))
                 ELSE Bad
         IN  Only({rest(x) : x \in {ParseLevel(text, pos)}})

\* serde_json::from_str::<Manifest>(contents): the whole text must be one
\* manifest object (the fields are read in the order to_string_pretty writes).
from_str(text) ==
    IF /\ At(text, 1, Punct("{"))
       /\ At(text, 2, Field("version")) /\ IsNum(text, 3)
       /\ At(text, 4, Field("levels")) /\ At(text, 5, Punct("["))
    THEN LET close(levels) ==
                 LET p == levels.pos
                 IN  IF /\ levels.ok
                        /\ At(text, p, Field("next_sstable_id")) /\ IsNum(text, p + 1)
                        /\ At(text, p + 2, Field("wal_seq")) /\ IsNum(text, p + 3)
                        /\ At(text, p + 4, Punct("}"))
                        /\ Len(text) = p + 4
                     THEN Good([version |-> text[3].n, levels |-> levels.val,
                                next_sstable_id |-> text[p + 1].n,
                                wal_seq |-> text[p + 3].n],
                               p + 5)
                     ELSE Bad
         IN  Only({close(x) : x \in {ParseLevels(text, 6, << >>)}})
    ELSE Bad

\* What Manifest::load returns.
LoadOk(manifest) == [kind |-> "Ok", manifest |-> manifest]
LoadIo == [kind |-> "Io", manifest |-> << >>]                       \* file not found
LoadSerialization == [kind |-> "Serialization", manifest |-> << >>]
LoadCorrupted == [kind |-> "Corrupted", manifest |-> << >>]

\* Manifest::load(path), reading the directory dir and the inodes.
load(dir, inodes, path) ==
    IF dir[path] = 0 THEN LoadIo
    ELSE LET contents == inodes[dir[path]].data
             validate(manifest) ==
                 IF ~manifest.ok THEN LoadSerialization
                 ELSE IF manifest.val.levels = << >> THEN LoadCorrupted
                 ELSE LoadOk(manifest.val)
         IN  Only({validate(x) : x \in {from_str(contents)}})

\* File::create(name): an existing file is truncated, else a new one is made.
\* The directory and inodes afterwards.
file_create(dir, inodes, name) ==
    IF dir[name] # 0
    THEN [dir |-> dir, inodes |-> [inodes EXCEPT ![dir[name]].data = << >>]]
    ELSE [dir |-> [dir EXCEPT ![name] = Len(inodes) + 1],
          inodes |-> Append(inodes, [data |-> << >>, dur |-> << >>])]

\* fs::rename that leaves the directory as it is.
rename_lost(dir, from, to) == dir

\* fs::rename(from, to): to names the file of from, which is a name no more;
\* renaming a file to itself does nothing.
rename(dir, from, to) ==
    IF from = to THEN dir ELSE [dir EXCEPT ![to] = dir[from], ![from] = 0]

\* The temp file of the save in progress.
temp_path == with_extension(man_path, "tmp")

\* Manifest::save, step 1: File::create(&temp_path).
SaveCreate ==
    /\ save_pc = "idle"
    /\ save_count < MaxSaves
    /\ LET fs == file_create(fs_dir, fs_inodes, temp_path)
       IN  fs_dir' = fs.dir /\ fs_inodes' = fs.inodes
    /\ pre_save' = load(fs_dir, fs_inodes, man_path)
    /\ save_pc' = "created"
    /\ save_count' = save_count + 1
    /\ load_after' = "none"
    /\ load_result' = << >>
    /\ UNCHANGED <<man_path, fs_dir_dur, saved>>
    /\ UNCHANGED <<cfgVars, memVars, walVars, manVars, sstVars>>

\* step 2: file.write_all(json.as_bytes())
SaveWrite ==
    /\ save_pc = "created"
    /\ fs_inodes' = [fs_inodes EXCEPT ![fs_dir[temp_path]].data = to_string_pretty(man)]
    /\ save_pc' = "written"
    /\ UNCHANGED <<man_path, fs_dir, fs_dir_dur, save_count, saved, pre_save,
                   load_result, load_after>>
    /\ UNCHANGED <<cfgVars, memVars, walVars, manVars, sstVars>>

\* step 3: file.sync_all()
SaveSync ==
    /\ save_pc = "written"
    /\ fs_inodes' = [fs_inodes EXCEPT ![fs_dir[temp_path]] = [data |-> @.data, dur |-> @.data]]
    /\ save_pc' = "synced"
    /\ UNCHANGED <<man_path, fs_dir, fs_dir_dur, save_count, saved, pre_save,
                   load_result, load_after>>
    /\ UNCHANGED <<cfgVars, memVars, walVars, manVars, sstVars>>

\* step 4: fs::rename(&temp_path, path)
SaveRename ==
    /\ save_pc = "synced"
    /\ fs_dir' = rename(fs_dir, temp_path, man_path)
    /\ save_pc' = "renamed"
    /\ UNCHANGED <<man_path, fs_dir_dur, fs_inodes, save_count, saved, pre_save,
                   load_result, load_after>>
    /\ UNCHANGED <<cfgVars, memVars, walVars, manVars, sstVars>>

\* step 5: sync_dir(parent); save returns Ok.
SaveSyncDir ==
    /\ save_pc = "renamed"
    /\ fs_dir_dur' = fs_dir
    /\ save_pc' = "idle"
    /\ saved' = man
    /\ UNCHANGED <<man_path, fs_dir, fs_inodes, save_count, pre_save, load_result,
                   load_after>>
    /\ UNCHANGED <<cfgVars, memVars, walVars, manVars, sstVars>>

\* What a crash can leave of a file: its durable bytes; when bytes were written
\* and not fsynced, also the first n of the bytes written, for any n.
AfterCrash(inode, n) ==
    IF inode.data = inode.dur \/ n > Len(inode.data) THEN inode.dur
    ELSE SubSeq(inode.data, 1, n)

\* The longest file there is.
RECURSIVE MaxDataLen(_)
MaxDataLen(inodes) ==
    IF inodes = << >> THEN 0
    ELSE LET rest == MaxDataLen(Tail(inodes))
         IN  IF Len(Head(inodes).data) > rest THEN Len(Head(inodes).data) ELSE rest

\* The machine crashes inside save. Each name is as the last directory fsync
\* left it or as the running system saw it; each file is as AfterCrash says
\* (save leaves at most one file with bytes not fsynced).
ManCrash ==
    /\ save_pc \in {"created", "written", "synced", "renamed"}
    /\ \E dir \in [FileNames -> 0..Len(fs_inodes)] :
          /\ \A name \in FileNames : dir[name] \in {fs_dir[name], fs_dir_dur[name]}
          /\ fs_dir' = dir
          /\ fs_dir_dur' = dir
    /\ \E n \in 0..(MaxDataLen(fs_inodes) + 1) :
          fs_inodes' = [i \in 1..Len(fs_inodes) |->
                           [data |-> AfterCrash(fs_inodes[i], n),
                            dur |-> AfterCrash(fs_inodes[i], n)]]
    /\ save_pc' = "down"
    /\ UNCHANGED <<man_path, save_count, saved, pre_save, load_result, load_after>>
    /\ UNCHANGED <<cfgVars, memVars, walVars, manVars, sstVars>>

\* Manifest::load(path) after the restart that follows a crash.
ManLoadAfterCrash ==
    /\ save_pc = "down"
    /\ load_after = "none"
    /\ load_result' = load(fs_dir, fs_inodes, man_path)
    /\ load_after' = "crash"
    /\ UNCHANGED <<man_path, fs_dir, fs_dir_dur, fs_inodes, save_pc, save_count, saved,
                   pre_save>>
    /\ UNCHANGED <<cfgVars, memVars, walVars, manVars, sstVars>>

\* Manifest::load(path) after a save that returned Ok.
ManLoadAfterSave ==
    /\ save_pc = "idle"
    /\ save_count > 0
    /\ load_after = "none"
    /\ load_result' = load(fs_dir, fs_inodes, man_path)
    /\ load_after' = "save"
    /\ UNCHANGED <<man_path, fs_dir, fs_dir_dur, fs_inodes, save_pc, save_count, saved,
                   pre_save>>
    /\ UNCHANGED <<cfgVars, memVars, walVars, manVars, sstVars>>

\* An empty directory and a manifest fresh from Manifest::new.
FsInit ==
    /\ man_path \in ManifestPaths
    /\ fs_dir = [name \in FileNames |-> 0]
    /\ fs_dir_dur = [name \in FileNames |-> 0]
    /\ fs_inodes = << >>
    /\ save_pc = "idle"
    /\ save_count = 0
    /\ saved = << >>
    /\ pre_save = << >>
    /\ load_result = << >>
    /\ load_after = "none"

InitManifestFs ==
    CfgIdle /\ MemInit /\ mt_max_size = 60 /\ WalIdle /\ ManInit /\ man_call = NotRecorded /\ FsInit
        /\ SstIdle

\* A run with saves makes fewer calls on the manifest.
CallsLeft == man_calls < MaxCallsWithSave

NextManifestSave ==
    \/ CallsLeft /\ ManAddSstable
    \/ CallsLeft /\ ManRemoveSstables
    \/ CallsLeft /\ ManNextSstableId
    \/ CallsLeft /\ ManNextWalSeq
    \/ SaveCreate \/ SaveWrite \/ SaveSync \/ SaveRename \/ SaveSyncDir
    \/ ManLoadAfterSave

\* Calls on the manifest, saves, and loads after a save.
SpecManifestSave == InitManifestFs /\ [][NextManifestSave]_vars

NextManifestCrash ==
    \/ CallsLeft /\ ManAddSstable
    \/ CallsLeft /\ ManRemoveSstables
    \/ CallsLeft /\ ManNextSstableId
    \/ CallsLeft /\ ManNextWalSeq
    \/ SaveCreate \/ SaveWrite \/ SaveSync \/ SaveRename \/ SaveSyncDir
    \/ ManCrash \/ ManLoadAfterCrash

\* Calls on the manifest, saves, a crash inside a save, and the load after it.
SpecManifestCrash == InitManifestFs /\ [][NextManifestCrash]_vars

\* C6: after a crash at any step of save(path), load(path) returns what it
\* returned before the save began (the complete previous manifest, or that there
\* is no file) or the complete new manifest; it never reads a partly written
\* file. Stated for manifests with at least one level: load rejects a complete
\* manifest without levels (see C7).
C6_CrashLeavesOldOrNew ==
    (load_after = "crash" /\ Len(man.levels) >= 1) =>
        load_result \in {pre_save, LoadOk(man)}

\* C7 for any max_levels: after save returns Ok, load returns Ok with a manifest
\* equal to the saved one in every field.
C7_SaveThenLoad ==
    load_after = "save" => load_result = LoadOk(saved)

\* C7 for max_levels >= 1: after save returns Ok, load returns Ok with a manifest
\* equal to the saved one in every field, when the manifest has a level.
C7_SaveThenLoadWithLevels ==
    (load_after = "save" /\ Len(saved.levels) >= 1) => load_result = LoadOk(saved)

\* A second save replaced the first, of a manifest that holds a table and has
\* handed out an id and a WAL sequence number; the load returned it.
C7_Witness ==
    /\ load_after = "save"
    /\ save_count = 2
    /\ AllSstables(saved) # {}
    /\ saved.version > 1
    /\ saved.next_sstable_id + saved.wal_seq > 2
    /\ load_result = LoadOk(saved)

----------------------------------------------------------------------------
\* Bloom filter (sstable/bloom.rs)

\* 64-bit words (the two hashes) are eight bytes, the least significant first.

\* a small number as u64 (byte as u64, i as u64)
U64(n) == <<n % 256, n \div 256, 0, 0, 0, 0, 0, 0>>

\* a.wrapping_add(b) on u64
wrapping_add(a, b) ==
    LET carry[i \in 0..8] ==
            IF i = 0 THEN 0 ELSE (a[i] + b[i] + carry[i - 1]) \div 256
    IN  [i \in 1..8 |-> (a[i] + b[i] + carry[i - 1]) % 256]

\* a[i] * b[k + 1 - i] summed over i..k: the products that land on byte k
RECURSIVE ByteProducts(_, _, _, _)
ByteProducts(a, b, k, i) ==
    IF i > k THEN 0 ELSE a[i] * b[k + 1 - i] + ByteProducts(a, b, k, i + 1)

\* a.wrapping_mul(b) on u64
wrapping_mul(a, b) ==
    LET carry[k \in 0..8] ==
            IF k = 0 THEN 0 ELSE (ByteProducts(a, b, k, 1) + carry[k - 1]) \div 256
    IN  [k \in 1..8 |-> (ByteProducts(a, b, k, 1) + carry[k - 1]) % 256]

\* h.rotate_left(5) on u64: each byte gives its low 3 bits to its own high end
\* and its high 5 bits to the low end of the next byte.
rotate_left_5(h) ==
    [i \in 1..8 |-> ((h[i] % 8) * 32) + (h[IF i = 1 THEN 8 ELSE i - 1] \div 8)]

\* h % m on u64, for m below 2^23; bytes i..1 still to come, r the remainder so far
RECURSIVE rem_loop(_, _, _, _)
rem_loop(h, m, i, r) ==
    IF i = 0 THEN r ELSE rem_loop(h, m, i - 1, (r * 256 + h[i]) % m)

rem(h, m) == rem_loop(h, m, 8, 0)

\* The constants of BloomFilter::hash.
FNV_OFFSET_BASIS == <<37, 35, 34, 132, 228, 156, 242, 203>>    \* 0xcbf29ce484222325
FNV_PRIME == <<179, 1, 0, 0, 0, 1, 0, 0>>                      \* 0x100000001b3
H2_SEED == <<21, 124, 74, 127, 185, 121, 55, 158>>             \* 0x9e3779b97f4a7c15

\* the loop of h1 over key[i..]
RECURSIVE h1_loop(_, _, _)
h1_loop(h1, key, i) ==
    IF i > Len(key) THEN h1
    ELSE Only({h1_loop(x, key, i + 1) :
                 x \in {wrapping_mul([h1 EXCEPT ![1] = Xor(h1[1], key[i])], FNV_PRIME)}})

\* the loop of h2 over key[i..]
RECURSIVE h2_loop(_, _, _)
h2_loop(h2, key, i) ==
    IF i > Len(key) THEN h2
    ELSE Only({h2_loop(x, key, i + 1) :
                 x \in {wrapping_add(rotate_left_5(h2), U64(key[i]))}})

\* The keys given to the filter.
BloomKeys == {<< >>, <<97>>, <<98>>, <<97, 98>>, <<98, 97>>}

\* the two loops of BloomFilter::hash and the test of h2
hash_loops(key) ==
    LET h1 == h1_loop(FNV_OFFSET_BASIS, key, 1)
        h2 == h2_loop(H2_SEED, key, 1)
    IN  <<h1, IF h2 = U64(0) THEN U64(1) ELSE h2>>

\* The hashes of the keys a run uses, computed once: hash is a function of the
\* key, so looking one up changes no result.
HASH_KNOWN == [key \in BloomKeys |-> hash_loops(key)]

\* BloomFilter::hash(key): (h1, h2)
hash(key) == IF key \in BloomKeys THEN HASH_KNOWN[key] ELSE hash_loops(key)

\* The number of add calls a run makes.
MaxBloomAdds == 3

\* 1 << bit_idx
Shl1(bit_idx) == 2 ^ bit_idx

\* BloomFilter::set_bit with = in the place of |=
set_bit_assign(bits, pos) ==
    LET byte_idx == pos \div 8
        bit_idx == pos % 8
    IN  IF byte_idx < Len(bits) THEN [bits EXCEPT ![byte_idx + 1] = Shl1(bit_idx)] ELSE bits

\* BloomFilter::set_bit(pos)
set_bit(bits, pos) ==
    LET byte_idx == pos \div 8
        bit_idx == pos % 8
    IN  IF byte_idx < Len(bits)
        THEN [bits EXCEPT ![byte_idx + 1] =
                 IF (@ \div Shl1(bit_idx)) % 2 = 1 THEN @ ELSE @ + Shl1(bit_idx)]
        ELSE bits

\* BloomFilter::is_bit_set(pos)
is_bit_set(bits, pos) ==
    LET byte_idx == pos \div 8
        bit_idx == pos % 8
    IN  IF byte_idx < Len(bits)
        THEN (bits[byte_idx + 1] \div Shl1(bit_idx)) % 2 = 1
        ELSE FALSE

\* The (num_keys, bits_per_key) a filter is made with: the smallest filter with
\* one hash, the default bits per key with a filter of 64 bits and a larger
\* one, and bits per key whose hash count is clamped to 30.
BloomParams == {<<0, 0>>, <<1, 10>>, <<10, 10>>, <<2, 44>>}

\* BloomFilter::new(num_keys, bits_per_key): [bits, num_hashes]. For the
\* bits_per_key of BloomParams, ceil(bits_per_key as f64 * 0.69) is the integer
\* computed here.
BloomFilterNew(num_keys, bits_per_key) ==
    LET product == num_keys * bits_per_key
        total_bits == IF product > 64 THEN product ELSE 64
        ceil == (bits_per_key * 69 + 99) \div 100
        num_hashes == IF ceil < 1 THEN 1 ELSE IF ceil > 30 THEN 30 ELSE ceil
        num_bytes == (total_bits + 7) \div 8
    IN  [bits |-> [i \in 1..num_bytes |-> 0], num_hashes |-> num_hashes]

\* (h1.wrapping_add((i as u64).wrapping_mul(h2))) % total_bits, h being (h1, h2)
bit_pos_of(h, i, total_bits) ==
    Only({rem(sum, total_bits) :
            sum \in {Only({wrapping_add(h[1], product) :
                             product \in {wrapping_mul(U64(i), h[2])}})}})

\* The bit positions of the keys and filter sizes a run uses, computed once.
BIT_POS_KNOWN ==
    [key \in BloomKeys, total_bits \in {Len(BloomFilterNew(p[1], p[2]).bits) * 8 : p \in BloomParams} |->
        [i \in 0..29 |-> bit_pos_of(hash(key), i, total_bits)]]

\* the bit position of probe i of key: hash(key), then the arithmetic above
bit_pos(key, i, total_bits) ==
    IF <<key, total_bits>> \in DOMAIN BIT_POS_KNOWN /\ i <= 29
    THEN BIT_POS_KNOWN[key, total_bits][i]
    ELSE bit_pos_of(hash(key), i, total_bits)

\* the loop of add from probe i on
RECURSIVE add_loop(_, _, _, _)
add_loop(bits, num_hashes, key, i) ==
    IF i >= num_hashes THEN bits
    ELSE Only({add_loop(b, num_hashes, key, i + 1) :
                 b \in {set_bit(bits, bit_pos(key, i, Len(bits) * 8))}})

\* BloomFilter::add(key): the bits afterwards
add(bits, num_hashes, key) == add_loop(bits, num_hashes, key, 0)

\* BloomFilter::may_contain(key): false at the first probe whose bit is not set
may_contain(bits, num_hashes, key) ==
    \A i \in 0..(num_hashes - 1) : is_bit_set(bits, bit_pos(key, i, Len(bits) * 8))

\* The keys added so far.
Added == {bf_added[i] : i \in 1..Len(bf_added)}

BloomInit ==
    /\ \E p \in BloomParams :
          /\ bf_bits = BloomFilterNew(p[1], p[2]).bits
          /\ bf_num_hashes = BloomFilterNew(p[1], p[2]).num_hashes
    /\ bf_added = << >>
    /\ bf_query = << >>

BloomAdd ==
    /\ Len(bf_added) < MaxBloomAdds
    /\ \E key \in BloomKeys :
          /\ bf_bits' = add(bf_bits, bf_num_hashes, key)
          /\ bf_added' = Append(bf_added, key)
    /\ UNCHANGED <<bf_num_hashes, bf_query>>
    /\ UNCHANGED <<cfgVars, memVars, walVars, manVars, fsVars, blockVars>>

BloomMayContain ==
    /\ \E key \in BloomKeys :
          bf_query' = [key |-> key,
                       answer |-> may_contain(bf_bits, bf_num_hashes, key),
                       added |-> key \in Added]
    /\ UNCHANGED <<bf_bits, bf_num_hashes, bf_added>>
    /\ UNCHANGED <<cfgVars, memVars, walVars, manVars, fsVars, blockVars>>

InitBloom == CfgIdle /\ MemInit /\ mt_max_size = 60 /\ WalIdle /\ ManIdle /\ BloomInit /\ BlockIdle

NextBloom == BloomAdd \/ BloomMayContain

\* A filter, keys added to it and membership queries, in any order.
SpecBloom == InitBloom /\ [][NextBloom]_vars

\* C12: may_contain(k) is true for every key k that was added; a may_contain
\* call that returned false was for a key never added.
C12_NoFalseNegatives ==
    /\ \A k \in Added : may_contain(bf_bits, bf_num_hashes, k)
    /\ (bf_query # << >> /\ ~bf_query.answer) => ~bf_query.added

\* Several keys were added, a query for one of them answered true, and the
\* filter still tells some key apart (a query for it would answer false).
C12_Witness ==
    /\ Cardinality(Added) >= 2
    /\ bf_query # << >>
    /\ bf_query.added
    /\ bf_query.answer
    /\ \E k \in BloomKeys \ Added : ~may_contain(bf_bits, bf_num_hashes, k)

----------------------------------------------------------------------------
\* Data block (sstable/block.rs)

\* crate::constants::BLOCK_SIZE, the block-size budget (4 KiB)
BLOCK_SIZE == 4096

\* A new builder whose restart-point list is empty.
BlockBuilderNewNoRestart ==
    [data |-> << >>, restart_points |-> << >>, counter |-> 0, restart_interval |-> 16]

\* BlockBuilder::new(): [data, restart_points, counter, restart_interval]
BlockBuilderNew ==
    [data |-> << >>, restart_points |-> <<0>>, counter |-> 0, restart_interval |-> 16]

\* The builder of the state.
Builder ==
    [data |-> bb_data, restart_points |-> bb_restart_points, counter |-> bb_counter,
     restart_interval |-> bb_restart_interval]

\* BlockBuilder::add that records its restart point before it tests the size.
builder_add_early_restart(self, key, value) ==
    LET entry_size == 4 + 4 + Len(key) + Len(value)
        restart_size == (Len(self.restart_points) + 1) * 4 + 4
        restarted == IF self.counter >= self.restart_interval
                     THEN [self EXCEPT !.restart_points = Append(@, Len(self.data)),
                                       !.counter = 0]
                     ELSE self
    IN  IF Len(self.data) + entry_size + restart_size > BLOCK_SIZE
        THEN [returned |-> FALSE, self |-> restarted]
        ELSE [returned |-> TRUE,
              self |-> [restarted EXCEPT
                          !.data = @ \o to_le_bytes(Len(key)) \o to_le_bytes(Len(value))
                                     \o key \o value,
                          !.counter = @ + 1]]

\* BlockBuilder::add whose size test leaves the entry out.
builder_add_ignores_entry_size(self, key, value) ==
    LET restart_size == (Len(self.restart_points) + 1) * 4 + 4
    IN  IF Len(self.data) + restart_size > BLOCK_SIZE
        THEN [returned |-> FALSE, self |-> self]
        ELSE LET restarted == IF self.counter >= self.restart_interval
                              THEN [self EXCEPT
                                      !.restart_points = Append(@, Len(self.data)),
                                      !.counter = 0]
                              ELSE self
             IN  [returned |-> TRUE,
                  self |-> [restarted EXCEPT
                              !.data = @ \o to_le_bytes(Len(key))
                                         \o to_le_bytes(Len(value)) \o key \o value,
                              !.counter = @ + 1]]

\* BlockBuilder::add(key, value): [returned, self], the bool of Ok(..) and the
\* builder afterwards
builder_add(self, key, value) ==
    LET entry_size == 4 + 4 + Len(key) + Len(value)
        restart_size == (Len(self.restart_points) + 1) * 4 + 4
    IN  IF Len(self.data) + entry_size + restart_size > BLOCK_SIZE
        THEN [returned |-> FALSE, self |-> self]
        ELSE LET restarted == IF self.counter >= self.restart_interval
                              THEN [self EXCEPT
                                      !.restart_points = Append(@, Len(self.data)),
                                      !.counter = 0]
                              ELSE self
             IN  [returned |-> TRUE,
                  self |-> [restarted EXCEPT
                              !.data = @ \o to_le_bytes(Len(key))
                                         \o to_le_bytes(Len(value)) \o key \o value,
                              !.counter = @ + 1]]

\* the restart offsets as bytes, 4 each
RECURSIVE restart_bytes(_)
restart_bytes(restart_points) ==
    IF restart_points = << >> THEN << >>
    ELSE to_le_bytes(Head(restart_points)) \o restart_bytes(Tail(restart_points))

\* finish that leaves the restart offsets out of the bytes.
finish_without_restarts(self) ==
    [data |-> self.data \o to_le_bytes(Len(self.restart_points)),
     restart_points |-> self.restart_points]

\* BlockBuilder::finish(): the Block [data, restart_points]
finish(self) ==
    [data |-> self.data \o restart_bytes(self.restart_points)
                  \o to_le_bytes(Len(self.restart_points)),
     restart_points |-> self.restart_points]

\* BlockBuilder::current_size()
current_size(self) == Len(self.data) + (Len(self.restart_points) * 4) + 4

\* Block::size()
size(block) == Len(block.data)

\* What the calls on a block return.
BlockOk(val) == [kind |-> "Ok", val |-> val]
BlockCorrupted == [kind |-> "Corrupted", val |-> << >>]
\* num_restarts * 4 is more than the bytes before the count: the subtraction
\* aborts where overflow is checked and wraps elsewhere (Corrupted follows)
BlockOverflow == [kind |-> "Overflow", val |-> << >>]
\* the call panics
BlockPanic == [kind |-> "Panic", val |-> << >>]

\* What a call returns whose arithmetic overflowed: with overflow checks (the
\* default of debug and test builds) the subtraction panics; without them it
\* wraps to a value above data.len() and line 159 returns Corrupted.
overflow_outcomes(result) ==
    IF result.kind = "Overflow" THEN {BlockPanic, BlockCorrupted} ELSE {result}

\* Block::from_bytes(data)
from_bytes(data) ==
    IF Len(data) < 4 THEN BlockCorrupted
    ELSE LET num_restarts_offset == Len(data) - 4
             num_restarts ==
                 from_le_bytes(SubSeq(data, num_restarts_offset + 1, num_restarts_offset + 4))
         IN  IF num_restarts = 0 THEN BlockCorrupted
             ELSE IF num_restarts > num_restarts_offset \div 4 THEN BlockOverflow
             ELSE LET restart_offset == num_restarts_offset - (num_restarts * 4)
                  IN  BlockOk([data |-> data,
                               restart_points |->
                                   [i \in 1..num_restarts |->
                                       from_le_bytes(SubSeq(data, restart_offset + (i - 1) * 4 + 1,
                                                            restart_offset + (i - 1) * 4 + 4))]])

\* Block::parse_entry(offset): Ok(key, value, next_offset) or Corrupted
parse_entry(self, offset) ==
    IF offset > Len(self.data) - 8 THEN BlockCorrupted
    ELSE LET key_len == from_le_bytes(SubSeq(self.data, offset + 1, offset + 4))
             val_len == from_le_bytes(SubSeq(self.data, offset + 5, offset + 8))
             key_start == offset + 8
         IN  IF key_len > Len(self.data) - key_start THEN BlockCorrupted
             ELSE IF val_len > Len(self.data) - key_start - key_len THEN BlockCorrupted
             ELSE LET val_start == key_start + key_len
                      next_offset == val_start + val_len
                  IN  BlockOk([key |-> SubSeq(self.data, key_start + 1, val_start),
                               value |-> SubSeq(self.data, val_start + 1, next_offset),
                               next_offset |-> next_offset])

\* the loop of find_restart_point from restart point number i (from 0) on
RECURSIVE find_restart_loop(_, _, _, _)
find_restart_loop(self, target_key, i, result) ==
    IF i >= Len(self.restart_points) THEN BlockOk(result)
    ELSE LET at(entry) ==
                 IF entry.kind # "Ok" THEN entry
                 ELSE IF slice_le(entry.val.key, target_key)
                 THEN find_restart_loop(self, target_key, i + 1, i)
                 ELSE BlockOk(result)
         IN  Only({at(x) : x \in {parse_entry(self, self.restart_points[i + 1])}})

\* find_restart_point that takes a restart point only when its key is below
\* the target.
RECURSIVE find_restart_loop_strict(_, _, _, _)
find_restart_loop_strict(self, target_key, i, result) ==
    IF i >= Len(self.restart_points) THEN BlockOk(result)
    ELSE LET at(entry) ==
                 IF entry.kind # "Ok" THEN entry
                 ELSE IF slice_lt(entry.val.key, target_key)
                 THEN find_restart_loop_strict(self, target_key, i + 1, i)
                 ELSE BlockOk(result)
         IN  Only({at(x) : x \in {parse_entry(self, self.restart_points[i + 1])}})

find_restart_point_strict(self, target_key) ==
    find_restart_loop_strict(self, target_key, 0, 0)

\* Block::find_restart_point(target_key): the index (from 0) of the last
\* restart point whose key is <= target_key, 0 when there is none
find_restart_point(self, target_key) == find_restart_loop(self, target_key, 0, 0)

\* the loop of get from offset on
RECURSIVE get_loop(_, _, _, _)
get_loop(self, target_key, offset, end_offset) ==
    IF offset >= end_offset THEN BlockOk(None)
    ELSE LET at(entry) ==
                 IF entry.kind # "Ok" THEN entry
                 ELSE IF entry.val.key = target_key THEN BlockOk(Some(entry.val.value))
                 ELSE IF slice_lt(target_key, entry.val.key) THEN BlockOk(None)
                 ELSE get_loop(self, target_key, entry.val.next_offset, end_offset)
         IN  Only({at(x) : x \in {parse_entry(self, offset)}})

\* Block::get(target_key): Ok(Some(value)), Ok(None) or Corrupted
get(self, target_key) ==
    LET from(restart) ==
            IF restart.kind # "Ok" THEN restart
            ELSE LET restart_idx == restart.val
                     start_offset == self.restart_points[restart_idx + 1]
                     end_offset ==
                         IF restart_idx + 1 < Len(self.restart_points)
                         THEN self.restart_points[restart_idx + 2]
                         ELSE Len(self.data) - (Len(self.restart_points) * 4) - 4
                 IN  get_loop(self, target_key, start_offset, end_offset)
    IN  Only({from(x) : x \in {find_restart_point(self, target_key)}})

\* What BlockIterator::next returns: None, Some(Ok((key, value))), Some(Err(..)).
IterNone == [kind |-> "None", val |-> << >>]

\* BlockIterator::next(): [item, current_offset], what it returns and where the
\* iterator stands afterwards
iter_next(self, current_offset) ==
    LET entries_end == Len(self.data) - (Len(self.restart_points) * 4) - 4
    IN  IF current_offset >= entries_end
        THEN [item |-> IterNone, current_offset |-> current_offset]
        ELSE IF current_offset > Len(self.data) - 8
        THEN [item |-> BlockCorrupted, current_offset |-> current_offset]
        ELSE LET key_len ==
                     from_le_bytes(SubSeq(self.data, current_offset + 1, current_offset + 4))
                 val_len ==
                     from_le_bytes(SubSeq(self.data, current_offset + 5, current_offset + 8))
                 key_start == current_offset + 8
             IN  IF \/ key_len > entries_end - key_start
                    \/ val_len > entries_end - key_start - key_len
                 THEN [item |-> BlockCorrupted, current_offset |-> current_offset]
                 ELSE LET val_start == key_start + key_len
                          next_offset == val_start + val_len
                      IN  [item |-> BlockOk([key |-> SubSeq(self.data, key_start + 1, val_start),
                                             value |-> SubSeq(self.data, val_start + 1,
                                                              next_offset)]),
                           current_offset |-> next_offset]

\* The number of entries a run adds to a block.
MaxBlockEntries == 18

\* How many of the entries of a run depart from the common kind (the next key
\* of BlockKey, a value of bb_value_len bytes): by their value length or by
\* leaving a key out.
MaxOddAdds == 1

\* The keys given to a builder, in ascending order: the empty key, then keys
\* of one byte and of two bytes in turn (<<1>>, <<1, 0>>, <<2>>, <<2, 0>>, ...).
BlockKey(j) ==
    IF j = 0 THEN << >>
    ELSE IF j % 2 = 1 THEN <<(j + 1) \div 2>>
    ELSE <<j \div 2, 0>>

\* The place of a key in that order.
KeyIndex(key) ==
    IF key = << >> THEN 0
    ELSE IF Len(key) = 1 THEN 2 * key[1] - 1
    ELSE 2 * key[1]

\* The common value length of a run with short values, and that of a run
\* whose entries fill the block (17 of them fit).
ShortValueLen == 1
LongValueLen == 220

\* The lengths of the values of a run: none, the common length, the longest
\* value that fits in an empty block beside a key of one byte, and a value that
\* fits in no block (8 + value length + 12 is more than BLOCK_SIZE).
BlockValueLens == {0, bb_value_len, BLOCK_SIZE - 21, BLOCK_SIZE - 19}

\* The value of len bytes given with key number j.
BlockValue(j, len) == [i \in 1..len |-> (7 * j + i) % 251]

\* How many entries of a log depart from the common kind.
OddAdds(log) ==
    Cardinality({i \in 1..Len(log) : Len(log[i].value) # bb_value_len})
        + (IF log = << >> THEN 0 ELSE KeyIndex(log[Len(log)].key) + 1 - Len(log))

\* BlockBuilder::new(), for a run with values of value_len bytes
BlockInit(value_len) ==
    /\ bb_data = BlockBuilderNew.data
    /\ bb_restart_points = BlockBuilderNew.restart_points
    /\ bb_counter = BlockBuilderNew.counter
    /\ bb_restart_interval = BlockBuilderNew.restart_interval
    /\ bb_pc = "build"
    /\ bb_log = << >>
    /\ bb_value_len = value_len
    /\ bb_returned = "none"
    /\ blk_bytes = << >>
    /\ blk = << >>
    /\ blk_get = << >>
    /\ it_offset = 0
    /\ it_results = << >>

\* A call of add with a key above every key added and a value; it is accepted
\* or refused.
BlockAdd ==
    /\ bb_pc = "build"
    /\ Len(bb_log) < MaxBlockEntries
    /\ \E skip \in {0, 1}, len \in BlockValueLens :
        \E j \in {(IF bb_log = << >> THEN 0 ELSE KeyIndex(bb_log[Len(bb_log)].key) + 1)
                      + skip} :
        \E key \in {BlockKey(j)}, value \in {BlockValue(j, len)} :
        \E r \in {builder_add(Builder, key, value)},
           log \in {Append(bb_log, [key |-> key, value |-> value])} :
              /\ r.returned => OddAdds(log) <= MaxOddAdds
              /\ bb_data' = r.self.data
              /\ bb_restart_points' = r.self.restart_points
              /\ bb_counter' = r.self.counter
              /\ bb_restart_interval' = r.self.restart_interval
              /\ bb_log' = IF r.returned THEN log ELSE bb_log
              /\ bb_returned' = IF r.returned THEN "true" ELSE "false"
    /\ UNCHANGED <<bb_pc, bb_value_len, blk_bytes, blk, blk_get, it_offset, it_results>>
    /\ UNCHANGED <<cfgVars, memVars, walVars, manVars, fsVars, bloomVars>>

\* builder.finish(), and Block::from_bytes on the bytes of the block
BlockFinish ==
    /\ bb_pc = "build"
    /\ blk_bytes' = finish(Builder).data
    /\ blk' \in overflow_outcomes(from_bytes(blk_bytes'))
    /\ bb_pc' = "sealed"
    /\ UNCHANGED <<bb_data, bb_restart_points, bb_counter, bb_restart_interval, bb_log,
                   bb_value_len, bb_returned, blk_get, it_offset, it_results>>
    /\ UNCHANGED <<cfgVars, memVars, walVars, manVars, fsVars, bloomVars>>

\* The keys asked of a block: every key a run can add and keys above them all.
BlockQueryKeys ==
    {BlockKey(j) : j \in 0..(MaxBlockEntries + MaxOddAdds + 1)} \cup {<<255>>}

\* block.get(key), called for each of the keys asked (get changes nothing, so
\* the calls are independent of each other and of the iterator)
BlockGet ==
    /\ bb_pc = "sealed"
    /\ blk.kind = "Ok"
    /\ blk_get = << >>
    /\ blk_get' = [key \in BlockQueryKeys |-> get(blk.val, key)]
    /\ UNCHANGED <<bb_data, bb_restart_points, bb_counter, bb_restart_interval, bb_pc,
                   bb_log, bb_value_len, bb_returned, blk_bytes, blk, it_offset, it_results>>
    /\ UNCHANGED <<cfgVars, memVars, walVars, manVars, fsVars, bloomVars>>

\* The loop over an iterator: next() until it returns None or an error;
\* [results, current_offset], what the calls returned and where the iterator
\* stands afterwards.
RECURSIVE iter_loop(_, _, _)
iter_loop(self, current_offset, results) ==
    LET after(r) ==
            IF r.item.kind # "Ok"
            THEN [results |-> Append(results, r.item), current_offset |-> r.current_offset]
            ELSE iter_loop(self, r.current_offset, Append(results, r.item))
    IN  Only({after(x) : x \in {iter_next(self, current_offset)}})

\* for item in block.iter(), after the keys were asked: every call of next() up
\* to the one that returns None
BlockIterate ==
    /\ bb_pc = "sealed"
    /\ blk.kind = "Ok"
    /\ blk_get # << >>
    /\ it_results = << >>
    /\ \E r \in {iter_loop(blk.val, 0, << >>)} :
           /\ it_offset' = r.current_offset
           /\ it_results' = r.results
    /\ UNCHANGED <<bb_data, bb_restart_points, bb_counter, bb_restart_interval, bb_pc,
                   bb_log, bb_value_len, bb_returned, blk_bytes, blk, blk_get>>
    /\ UNCHANGED <<cfgVars, memVars, walVars, manVars, fsVars, bloomVars>>

InitBlock ==
    CfgIdle /\ MemInit /\ mt_max_size = 60 /\ WalIdle /\ ManIdle /\ BloomIdle
        /\ BlockInit(ShortValueLen)

NextBlock == BlockAdd \/ BlockFinish \/ BlockGet \/ BlockIterate

\* A builder, add calls with ascending keys and short values, finish, and
\* reads of the block.
SpecBlock == InitBlock /\ [][NextBlock]_vars

InitBlockFull ==
    CfgIdle /\ MemInit /\ mt_max_size = 60 /\ WalIdle /\ ManIdle /\ BloomIdle
        /\ BlockInit(LongValueLen)

NextBlockFull == BlockAdd \/ BlockFinish

\* A builder, add calls with ascending keys and long values until the block
\* takes no more, and finish.
SpecBlockFull == InitBlockFull /\ [][NextBlockFull]_vars

\* The length of the byte buffers given to from_bytes.
MaxBufferLen == 8

\* The bytes of those buffers.
BufferBytes == {0, 1, 255}

\* The buffers: every sequence of those bytes up to that length.
ByteBuffers == UNION {[1..n -> BufferBytes] : n \in 0..MaxBufferLen}

\* Bytes that come from a file rather than from a builder.
BlockBytesInit ==
    /\ bb_data = << >>
    /\ bb_restart_points = << >>
    /\ bb_counter = 0
    /\ bb_restart_interval = 0
    /\ bb_pc = "bytes"
    /\ bb_log = << >>
    /\ bb_value_len = 0
    /\ bb_returned = "none"
    /\ blk_bytes \in ByteBuffers
    /\ blk = << >>
    /\ blk_get = << >>
    /\ it_offset = 0
    /\ it_results = << >>

\* Block::from_bytes(data) on those bytes
BlockFromBytes ==
    /\ bb_pc = "bytes"
    /\ blk' \in overflow_outcomes(from_bytes(blk_bytes))
    /\ bb_pc' = "read"
    /\ UNCHANGED <<bb_data, bb_restart_points, bb_counter, bb_restart_interval, bb_log,
                   bb_value_len, bb_returned, blk_bytes, blk_get, it_offset, it_results>>
    /\ UNCHANGED <<cfgVars, memVars, walVars, manVars, fsVars, bloomVars>>

InitBlockBytes ==
    CfgIdle /\ MemInit /\ mt_max_size = 60 /\ WalIdle /\ ManIdle /\ BloomIdle /\ BlockBytesInit

NextBlockBytes == BlockFromBytes

\* Block::from_bytes on any bytes.
SpecBlockBytes == InitBlockBytes /\ [][NextBlockBytes]_vars

\* ---- Claims about the data block ----

\* The pairs a block holds, as the iterator returns them.
LogItem(i) == BlockOk([key |-> bb_log[i].key, value |-> bb_log[i].value])

\* The value added with a key, None when the key was not added.
AddedValue(key) ==
    IF \E i \in 1..Len(bb_log) : bb_log[i].key = key
    THEN Some(bb_log[CHOOSE i \in 1..Len(bb_log) : bb_log[i].key = key].value)
    ELSE None

\* C13: for every ascending sequence of pairs that add accepted, from_bytes on
\* the bytes of finish() succeeds, get(k) of that block returns Some(v) for
\* every added pair (k, v), and the iterator returns exactly the added pairs in
\* the order they were added and then None.
C13_BlockRoundTrip ==
    bb_pc = "sealed" =>
        /\ blk.kind = "Ok"
        /\ blk_get # << >> =>
               \A i \in 1..Len(bb_log) :
                   blk_get[bb_log[i].key] = BlockOk(Some(bb_log[i].value))
        /\ \A i \in 1..Len(it_results) :
               it_results[i] = IF i <= Len(bb_log) THEN LogItem(i) ELSE IterNone

\* A block of more than one restart interval with a value of no bytes was read
\* back, asked for its keys and iterated to its end.
C13_Witness ==
    /\ bb_pc = "sealed"
    /\ Len(bb_log) > bb_restart_interval
    /\ \E i \in 1..Len(bb_log) : bb_log[i].value = << >>
    /\ blk_get # << >>
    /\ Len(it_results) = Len(bb_log) + 1
    /\ it_results[Len(it_results)] = IterNone

\* C14: for a block built from an ascending key sequence of one or several
\* restart intervals (at least one entry), get(k) returns Some(v) exactly when
\* (k, v) was added and None for every other key, wherever that key sorts.
C14_GetExact ==
    (bb_pc = "sealed" /\ Len(bb_log) >= 1 /\ blk_get # << >>) =>
        \A k \in BlockQueryKeys : blk_get[k] = BlockOk(AddedValue(k))

\* A block of two restart intervals where the key just below the second
\* restart point was left out: that key and a key above all are absent, the
\* key at the restart point is found.
C14_Witness ==
    /\ bb_pc = "sealed"
    /\ Len(bb_log) > bb_restart_interval
    /\ blk_get # << >>
    /\ KeyIndex(bb_log[bb_restart_interval + 1].key) = bb_restart_interval + 1
    /\ blk_get[BlockKey(bb_restart_interval)] = BlockOk(None)
    /\ blk_get[<<255>>] = BlockOk(None)
    /\ blk_get[bb_log[bb_restart_interval + 1].key].val.some

\* C15: after any sequence of add calls, accepted or refused, current_size()
\* is at most the block size of 4096 bytes, and so is the size of the block
\* finish() produces.
C15_SizeWithinBudget ==
    /\ current_size(Builder) <= BLOCK_SIZE
    /\ bb_pc = "sealed" => (blk.kind = "Ok" /\ size(blk.val) <= BLOCK_SIZE)

\* A block was filled until add refused an entry, then finished.
C15_Witness ==
    /\ bb_pc = "sealed"
    /\ bb_returned = "false"
    /\ Len(bb_log) > bb_restart_interval
    /\ size(blk.val) > BLOCK_SIZE - LongValueLen

\* C16: a call of add that returns false leaves the entry bytes, the
\* restart-point list and the counter of entries since the last restart point
\* as they were, and with them the block finish() produces.
C16_RefusedAddChangesNothing ==
    [][ (bb_pc = "build" /\ bb_pc' = "build" /\ bb_returned' = "false") =>
            /\ UNCHANGED <<bb_data, bb_restart_points, bb_counter>>
            /\ finish(Builder)' = finish(Builder) ]_vars

\* An add was refused when the next accepted entry would open a restart
\* interval.
C16_Witness ==
    /\ bb_pc = "build"
    /\ bb_returned = "false"
    /\ bb_counter >= bb_restart_interval
    /\ Len(bb_log) = bb_restart_interval

\* The byte offset at which entry number i (from 0) of the log begins.
RECURSIVE EntryOffset(_)
EntryOffset(i) ==
    IF i = 0 THEN 0
    ELSE EntryOffset(i - 1) + 4 + 4 + Len(bb_log[i].key) + Len(bb_log[i].value)

\* C17: after n >= 1 accepted adds the restart-point list holds ceil(n / 16)
\* offsets, strictly increasing, and offset number j (from 0) is where entry
\* number 16 * j begins; offset 0 of the first entry is a restart point.
C17_RestartPoints ==
    Len(bb_log) >= 1 =>
        /\ bb_restart_interval = 16
        /\ Len(bb_restart_points) = (Len(bb_log) + 15) \div 16
        /\ \A j \in 1..Len(bb_restart_points) :
               /\ bb_restart_points[j] = EntryOffset(16 * (j - 1))
               /\ j > 1 => bb_restart_points[j] > bb_restart_points[j - 1]
        /\ bb_restart_points[1] = 0

\* Seventeen or more entries were accepted (two restart points), one of them
\* with a value of no bytes in the first interval.
C17_Witness ==
    /\ Len(bb_log) > 16
    /\ Len(bb_restart_points) = 2
    /\ \E i \in 1..16 : bb_log[i].value = << >>

\* ---- Claims about the calls on the manifest ----

\* Whether the range of a table and the range [min_key, max_key] have a key in
\* common (byte order).
Intersects(sst, min_key, max_key) ==
    slice_le(min_key, sst.max_key) /\ slice_le(sst.min_key, max_key)

\* C18: find_overlapping(level, min_key, max_key) returns exactly the tables of
\* the level for which not (sst.max_key < min_key or sst.min_key > max_key) in
\* byte order, in the order the level stores them, and an empty list when level
\* is not a level of the manifest; the manifest is not changed.
C18_FindOverlapping ==
    (man_call.op = "find_overlapping") =>
        /\ man = man_before
        /\ man_call.returned =
               IF man_call.level < Len(man_before.levels)
               THEN SelectSeq(man_before.levels[man_call.level + 1].sstables,
                              LAMBDA sst : Intersects(sst, man_call.min_key, man_call.max_key))
               ELSE << >>

\* A level of two tables was asked for a range that touches the upper bound of
\* the first table and stops below the second: the first table alone is
\* returned.
C18_Witness ==
    /\ man_call.op = "find_overlapping"
    /\ man_call.level < Len(man.levels)
    /\ Len(man.levels[man_call.level + 1].sstables) = 2
    /\ man_call.min_key = <<99>>
    /\ man_call.max_key = <<100>>
    /\ Len(man_call.returned) = 1
    /\ man_call.returned[1].max_key = <<99>>

\* The ids of a list of tables.
IdsOf(sstables) == {sstables[i].id : i \in 1..Len(sstables)}

\* The tables of a list whose id is not among ids, in their order.
Others(sstables, ids) == SelectSeq(sstables, LAMBDA s : s.id \notin ids)

\* C19: after remove_sstables(list), for every table m of the list that was
\* added with add_sstable at a valid level (so is in a level before the call),
\* no table with the id of m remains in any level; the tables whose id is not
\* in the list remain in their levels in the same order; version is one more
\* than before.
C19_RemoveSstables ==
    (man_call.op = "remove_sstables") =>
        /\ \A i \in 1..Len(man_call.sstables) :
               man_call.sstables[i] \in AllSstables(man_before) =>
                   \A lvl \in 1..Len(man.levels) :
                       man_call.sstables[i].id \notin IdsOf(man.levels[lvl].sstables)
        /\ Len(man.levels) = Len(man_before.levels)
        /\ \A lvl \in 1..Len(man.levels) :
               Others(man.levels[lvl].sstables, IdsOf(man_call.sstables))
                   = Others(man_before.levels[lvl].sstables, IdsOf(man_call.sstables))
        /\ man.version = man_before.version + 1

\* C20: for every level argument and metadata, add_sstable(level, meta) makes
\* meta the last table of get_level(level) and makes version one more, and
\* leaves every other level, next_sstable_id and wal_seq as they were.
C20_AddSstable ==
    (man_call.op = "add_sstable") =>
        /\ get_level(man, man_call.level) # << >>
        /\ get_level(man, man_call.level)[Len(get_level(man, man_call.level))]
               = man_call.metadata
        /\ man.version = man_before.version + 1
        /\ Len(man.levels) = Len(man_before.levels)
        /\ \A lvl \in 1..Len(man.levels) :
               lvl # man_call.level + 1 => man.levels[lvl] = man_before.levels[lvl]
        /\ man.next_sstable_id = man_before.next_sstable_id
        /\ man.wal_seq = man_before.wal_seq

\* C20, for the levels the manifest has: add_sstable(level, meta) with
\* level < max_levels makes meta the last table of get_level(level) after the
\* tables that were there, makes version one more, and leaves every other
\* level, next_sstable_id and wal_seq as they were; with any other level
\* argument it changes nothing.
C20_AddSstableValidLevel ==
    (man_call.op = "add_sstable") =>
        IF man_call.level < Len(man_before.levels)
        THEN /\ get_level(man, man_call.level)
                    = Append(get_level(man_before, man_call.level), man_call.metadata)
             /\ man.version = man_before.version + 1
             /\ Len(man.levels) = Len(man_before.levels)
             /\ \A lvl \in 1..Len(man.levels) :
                    lvl # man_call.level + 1 => man.levels[lvl] = man_before.levels[lvl]
             /\ man.next_sstable_id = man_before.next_sstable_id
             /\ man.wal_seq = man_before.wal_seq
        ELSE man = man_before

\* A table was added to level 1, which held another table, while level 0 held
\* one.
C20_Witness ==
    /\ man_call.op = "add_sstable"
    /\ man_call.level = 1
    /\ Len(man.levels) = 2
    /\ Len(man.levels[2].sstables) = 2
    /\ man.levels[2].sstables[1] # man_call.metadata
    /\ Len(man.levels[1].sstables) = 1

\* ---- The manifest given tables whose key ranges meet ----

\* The metadata of three tables with ids 1, 2, 3 and the key ranges [a, c],
\* [c, e] and [f, g]: the first two share the key c.
MeetingMetas(level) ==
    {SSTableMetadata(1, level, <<97>>, <<99>>),
     SSTableMetadata(2, level, <<99>>, <<101>>),
     SSTableMetadata(3, level, <<102>>, <<103>>)}

\* add_sstable(level, metadata) with the level of the metadata.
ManAddMeeting ==
    /\ ManReady
    /\ man_calls < MaxManCalls
    /\ \E level \in LevelArgs :
       \E metadata \in MeetingMetas(level) :
          /\ man' = add_sstable(man, level, metadata)
          /\ man_call' = Recorded([op |-> "add_sstable", level |-> level,
                                  metadata |-> metadata])
    /\ man_before' = man
    /\ man_calls' = man_calls + 1
    /\ UNCHANGED <<ids_out, seqs_out>>
    /\ UNCHANGED <<cfgVars, memVars, walVars, fsVars, sstVars>>

NextManifestLevels == ManAddMeeting \/ ManRemoveSstables

\* Calls of add_sstable and remove_sstables on a new manifest.
SpecManifestLevels == InitManifest /\ [][NextManifestLevels]_vars

\* ---- The manifest from its construction ----

\* Manifest::new(max_levels) has just returned; the call is recorded with its
\* argument.
InitManifestNew ==
    /\ CfgIdle /\ MemInit /\ mt_max_size = 60 /\ WalIdle /\ FsUnused /\ SstIdle
    /\ \E max_levels \in MaxLevelsArgs :
          /\ man = ManifestNew(max_levels)
          /\ man_call = [op |-> "new", max_levels |-> max_levels]
    /\ man_before = man
    /\ man_calls = 0
    /\ ids_out = << >>
    /\ seqs_out = << >>

NextManifestNew ==
    ManAddSstable \/ ManRemoveSstables \/ ManNextSstableId \/ ManNextWalSeq

\* Manifest::new, then calls of the four methods that change the manifest.
SpecManifestNew == InitManifestNew /\ [][NextManifestNew]_vars

\* ---- The log truncated ----

\* WalWriter::truncate() that opens the segment without the truncate flag: the
\* bytes stay.
truncate_keeps_bytes ==
    /\ wal_file' = wal_file
    /\ wal_offset' = 0

\* WalWriter::truncate(): the handle is replaced by one opened with create,
\* write and truncate, which empties the file; offset = 0. The new handle
\* writes from position 0 of the empty file, so later appends follow each
\* other as before.
truncate ==
    /\ wal_file' = << >>
    /\ wal_offset' = 0

\* The calls of truncate in one run.
MaxTruncates == 1

\* truncate() returns Ok. The number of entries the segment held is remembered
\* in wal_dropped, wal_log starts again as the entries appended since. No byte
\* of the new file is fsynced.
WalTruncate ==
    /\ wal_mode = "write"
    /\ Len(wal_dropped) < MaxTruncates
    /\ truncate
    /\ wal_durable' = 0
    /\ wal_dropped' = Append(wal_dropped, Len(wal_log))
    /\ wal_log' = << >>
    /\ wal_synced' = 0
    /\ UNCHANGED <<wal_mode, wal_mark, rd_pos, rd_results>>
    /\ UNCHANGED <<cfgVars, memVars, manVars, fsVars, sstVars>>

NextWalTruncate == WalAppend \/ WalSync \/ WalTruncate \/ WalClose \/ WalReaderNext

\* Appends and syncs, a truncate, more appends, then a reader on the segment.
SpecWalTruncate == InitWal /\ [][NextWalTruncate]_vars

\* ---- Writes logged before they are applied, a crash, the log replayed ----

\* No write stands between the log and the memtable: every entry appended has
\* been applied.
NoWriteInFlight == Len(wal_log) = Len(mt_log)

\* Memtable::put or Memtable::delete, as the entry says.
apply_entry(entry) ==
    IF entry.type = "Put" THEN put(entry.key, entry.value) ELSE delete(entry.key)

\* The write that was appended and synced is applied to the memtable.
LoggedApply ==
    /\ wal_mode = "write"
    /\ Len(mt_log) < wal_synced
    /\ apply_entry(wal_log[Len(mt_log) + 1])
    /\ UNCHANGED <<cfgVars, walVars, manVars, fsVars, sstVars>>

\* The machine crashes, at any point of a write. The file keeps what WalCrash
\* says; the memtable is lost (it is remembered in mt_lost) and the process
\* starts again with Memtable::new.
EngineCrash ==
    /\ wal_mode = "write"
    /\ \E n \in 0..(Len(wal_file) - wal_durable), written \in BOOLEAN :
          wal_file' = SubSeq(wal_file, 1, wal_durable)
                          \o (IF written
                              THEN SubSeq(wal_file, wal_durable + 1, wal_durable + n)
                              ELSE Zeros(n))
    /\ wal_mode' = "crash"
    /\ mt_lost' = [data |-> mt_data, log |-> mt_log]
    /\ mt_data' = << >>
    /\ mt_size' = 0
    /\ mt_seq_num' = 0
    /\ mt_log' = << >>
    /\ UNCHANGED <<mt_max_size, mt_range>>
    /\ UNCHANGED <<wal_durable, wal_offset, wal_log, wal_synced, wal_mark, rd_pos, rd_results,
                   wal_dropped>>
    /\ UNCHANGED <<cfgVars, manVars, fsVars, sstVars>>

\* One step of the replay: next, and the entry it returns is applied to the
\* new memtable. The replay ends with the first result that is not an entry.
Replay ==
    /\ wal_mode = "crash"
    /\ (IF rd_results = << >> THEN TRUE ELSE rd_results[Len(rd_results)].kind = "Entry")
    /\ next
    /\ \E r \in {decode_entry(wal_file, rd_pos).result} :
          IF r.kind = "Entry" THEN apply_entry(r.entry) ELSE UNCHANGED memVars
    /\ UNCHANGED <<wal_file, wal_durable, wal_offset, wal_log, wal_synced, wal_mode, wal_mark,
                   wal_dropped>>
    /\ UNCHANGED <<cfgVars, manVars, fsVars, sstVars>>

NextReplay ==
    \/ (NoWriteInFlight /\ WalAppend)
    \/ WalSync
    \/ LoggedApply
    \/ EngineCrash
    \/ Replay

\* Writes that are appended, synced and then applied, a crash, the replay.
SpecReplay == InitWal /\ [][NextReplay]_vars

\* ---- The log with a record that was never encoded ----

\* Payloads of records that encode_entry does not write: no byte (what a
\* zero-filled region reads as), fewer than the 9 header bytes, a key_len or
\* a val_len that reaches past the payload; and two that decode: a Delete with
\* a val_len that is not used, a Put of one key byte and one value byte.
CraftPayloads ==
    {<< >>,
     <<1>>,
     <<2, 0, 0, 0, 0, 0, 0, 0>>,
     <<2, 1, 0, 0, 0, 0, 0, 0, 0>>,
     <<1, 0, 0, 0, 0, 1, 0, 0, 0>>,
     <<1, 1, 0, 0, 0, 1, 0, 0, 0, 97>>,
     <<2, 1, 0, 0, 0, 5, 0, 0, 0, 97>>,
     <<1, 1, 0, 0, 0, 1, 0, 0, 0, 97, 120>>}

\* A record with one of these payloads, its length and its checksum follows
\* the records appended. wal_mark is its number.
WalCraft ==
    /\ wal_mode = "write"
    /\ \E payload \in CraftPayloads :
          wal_file' = wal_file \o word_to_le_bytes(crc32(payload))
                          \o to_le_bytes(Len(payload)) \o payload
    /\ wal_mark' = Len(wal_log) + 1
    /\ wal_mode' = "craft"
    /\ UNCHANGED <<wal_durable, wal_offset, wal_log, wal_synced, rd_pos, rd_results, wal_dropped>>
    /\ UNCHANGED <<cfgVars, memVars, manVars, fsVars, sstVars>>

NextWalCraft == WalAppend \/ WalCraft \/ WalReaderNext

\* Appends, then a record with a matching checksum that no writer wrote, then
\* a reader on the segment.
SpecWalCraft == InitWal /\ [][NextWalCraft]_vars

\* ---- Writers made on a segment that exists ----

\* WalWriter::create(path): the file is opened with create, write and append,
\* which keeps a file that is already there with its bytes; offset: 0.
create == wal_offset' = 0

\* WalWriter::open(path): offset = file.seek(SeekFrom::End(0)).
open == wal_offset' = Len(wal_file)

\* The writer is dropped and a new one is made with create on the same path.
WalCreate ==
    /\ wal_mode = "write"
    /\ create
    /\ UNCHANGED <<wal_file, wal_durable, wal_log, wal_synced, wal_mode, wal_mark, rd_pos,
                   rd_results, wal_dropped>>
    /\ UNCHANGED <<cfgVars, memVars, manVars, fsVars, sstVars>>

\* The writer is dropped and a new one is made with open on the same path.
WalOpen ==
    /\ wal_mode = "write"
    /\ open
    /\ UNCHANGED <<wal_file, wal_durable, wal_log, wal_synced, wal_mode, wal_mark, rd_pos,
                   rd_results, wal_dropped>>
    /\ UNCHANGED <<cfgVars, memVars, manVars, fsVars, sstVars>>

NextWalWriter == WalCreate \/ WalOpen \/ WalAppend \/ WalTruncate

\* Writers made with create and open on one path, appends and truncates.
SpecWalWriter == InitWal /\ [][NextWalWriter]_vars

\* ---- The log with a damaged or forged record ----

\* The amounts by which a byte is changed (mod 256): the next value, the top
\* bit flipped, the value before.
ByteDeltas == {1, 128, 255}

\* One byte of record i after its checksum field (length, op, key_len, val_len,
\* key or value) is changed, the stored checksum is kept. wal_mark is i.
WalDamage ==
    /\ wal_mode = "write"
    /\ \E i \in 1..Len(wal_log) :
       \E at \in (RecStart(i) + 5)..(RecStart(i) + Len(encode_entry(wal_log[i]))),
          delta \in ByteDeltas :
          /\ wal_file' = [wal_file EXCEPT ![at] = (@ + delta) % 256]
          /\ wal_mark' = i
    /\ wal_mode' = "damage"
    /\ UNCHANGED <<wal_durable, wal_offset, wal_log, wal_synced, rd_pos, rd_results, wal_dropped>>
    /\ UNCHANGED <<cfgVars, memVars, manVars, fsVars, sstVars>>

\* The op bytes that are neither OP_PUT nor OP_DELETE.
UnknownOps == {0, 3, 255}

\* Record i is replaced by a record with the same fields but an unknown op
\* byte, and with the checksum of its payload. wal_mark is i.
WalForgeOp ==
    /\ wal_mode = "write"
    /\ \E i \in 1..Len(wal_log), op_type \in UnknownOps :
          LET start == RecStart(i)
              len == Len(encode_entry(wal_log[i]))
              payload == <<op_type>> \o SubSeq(wal_file, start + 10, start + len)
          IN  /\ wal_file' = SubSeq(wal_file, 1, start)
                                 \o word_to_le_bytes(crc32(payload))
                                 \o SubSeq(wal_file, start + 5, start + 8)
                                 \o payload
                                 \o SubSeq(wal_file, start + len + 1, Len(wal_file))
              /\ wal_mark' = i
    /\ wal_mode' = "forge"
    /\ UNCHANGED <<wal_durable, wal_offset, wal_log, wal_synced, rd_pos, rd_results, wal_dropped>>
    /\ UNCHANGED <<cfgVars, memVars, manVars, fsVars, sstVars>>

NextWalDamage == WalAppend \/ WalDamage \/ WalReaderNext

\* Appends, then one byte of a record changed, then a reader on the segment.
SpecWalDamage == InitWal /\ [][NextWalDamage]_vars

NextWalForge == WalAppend \/ WalForgeOp \/ WalReaderNext

\* Appends, then one record given an unknown op byte, then a reader.
SpecWalForge == InitWal /\ [][NextWalForge]_vars

\* ---- A filter from either constructor ----

\* BloomFilter::with_bytes(bytes, num_hashes): both fields are taken as given.
with_bytes(bytes, num_hashes) == [bits |-> bytes, num_hashes |-> num_hashes]

\* The byte arrays given to with_bytes: none, one byte, eight bytes.
WithBytesArgs == {<< >>, <<0>>, <<0, 0, 0, 0, 0, 0, 0, 0>>}

\* The num_hashes given to with_bytes: below, in and above [1, 30].
NumHashesArgs == {0, 1, 7, 31}

\* A filter as BloomFilter::new or BloomFilter::with_bytes returns it.
BloomMadeInit ==
    /\ \E made \in {BloomFilterNew(p[1], p[2]) : p \in BloomParams}
                     \cup {with_bytes(bytes, num_hashes) :
                              bytes \in WithBytesArgs, num_hashes \in NumHashesArgs} :
          /\ bf_bits = made.bits
          /\ bf_num_hashes = made.num_hashes
    /\ bf_added = << >>
    /\ bf_query = << >>

\* add and may_contain compute % total_bits in every round of their loop: with
\* no bits and at least one round the division by zero panics.
ZeroModulus == Len(bf_bits) * 8 = 0 /\ bf_num_hashes > 0

\* The call panicked; nothing runs after it.
BloomPanicked == IF bf_query = << >> THEN FALSE ELSE bf_query.panicked

\* BloomFilter::add(key) on the filter made.
BloomMadeAdd ==
    /\ ~BloomPanicked
    /\ Len(bf_added) < MaxBloomAdds
    /\ \E key \in BloomKeys :
          IF ZeroModulus
          THEN /\ bf_query' = [key |-> key, call |-> "add", panicked |-> TRUE,
                               answer |-> FALSE]
               /\ UNCHANGED <<bf_bits, bf_added>>
          ELSE /\ bf_bits' = add(bf_bits, bf_num_hashes, key)
               /\ bf_added' = Append(bf_added, key)
               /\ bf_query' = [key |-> key, call |-> "add", panicked |-> FALSE,
                               answer |-> FALSE]
    /\ UNCHANGED bf_num_hashes
    /\ UNCHANGED <<cfgVars, memVars, walVars, manVars, fsVars, blockVars>>

\* BloomFilter::may_contain(key) on the filter made.
BloomMadeMayContain ==
    /\ ~BloomPanicked
    /\ \E key \in BloomKeys :
          bf_query' = IF ZeroModulus
                      THEN [key |-> key, call |-> "may_contain", panicked |-> TRUE,
                            answer |-> FALSE]
                      ELSE [key |-> key, call |-> "may_contain", panicked |-> FALSE,
                            answer |-> may_contain(bf_bits, bf_num_hashes, key)]
    /\ UNCHANGED <<bf_bits, bf_num_hashes, bf_added>>
    /\ UNCHANGED <<cfgVars, memVars, walVars, manVars, fsVars, blockVars>>

InitBloomMade ==
    CfgIdle /\ MemInit /\ mt_max_size = 60 /\ WalIdle /\ ManIdle /\ BloomMadeInit /\ BlockIdle

NextBloomMade == BloomMadeAdd \/ BloomMadeMayContain

\* A filter from either public constructor, then add and may_contain calls.
SpecBloomMade == InitBloomMade /\ [][NextBloomMade]_vars

\* ---- The number of hashes of a new filter ----

\* The largest bits_per_key a filter is made with.
MaxBitsPerKey == 60

\* The num_keys a filter is made with.
NumKeysArgs == {0, 100}

\* The arguments of a call of BloomFilter::new that has not been made yet.
BloomArgsInit ==
    /\ bf_bits = << >>
    /\ bf_num_hashes = 0
    /\ bf_added = << >>
    /\ bf_query \in [num_keys : NumKeysArgs, bits_per_key : 0..MaxBitsPerKey, made : {FALSE}]

\* BloomFilter::new(num_keys, bits_per_key) returns the filter.
BloomConstruct ==
    /\ ~bf_query.made
    /\ \E made \in {BloomFilterNew(bf_query.num_keys, bf_query.bits_per_key)} :
          /\ bf_bits' = made.bits
          /\ bf_num_hashes' = made.num_hashes
    /\ bf_query' = [bf_query EXCEPT !.made = TRUE]
    /\ UNCHANGED bf_added
    /\ UNCHANGED <<cfgVars, memVars, walVars, manVars, fsVars, blockVars>>

InitBloomNew ==
    CfgIdle /\ MemInit /\ mt_max_size = 60 /\ WalIdle /\ ManIdle /\ BloomArgsInit /\ BlockIdle

NextBloomNew == BloomConstruct

\* BloomFilter::new for every bits_per_key up to MaxBitsPerKey.
SpecBloomNew == InitBloomNew /\ [][NextBloomNew]_vars

\* ---- The configuration and the size of a level ----

\* n zero bytes after the bytes of a.
PadTo(a, n) == [i \in 1..n |-> IF i <= Len(a) THEN a[i] ELSE 0]

\* The product of two numbers given as little-endian bytes, with every byte
\* of it: Len(a) + Len(b) bytes.
BigMul(a, b) ==
    LET n == Len(a) + Len(b)
        x == PadTo(a, n)
        y == PadTo(b, n)
        sums == [k \in 1..n |-> ByteProducts(x, y, k, 1)]
        carry[k \in 0..n] == IF k = 0 THEN 0 ELSE (sums[k] + carry[k - 1]) \div 256
    IN  [k \in 1..n |-> (sums[k] + carry[k - 1]) % 256]

\* a * b on 64-bit unsigned integers (usize and u64 of a 64-bit target): the low
\* 64 bits of the product, and whether the product needs more.
mul64(a, b) ==
    Only({[val |-> SubSeq(full, 1, 8), overflow |-> \E i \in 9..16 : full[i] # 0] :
            full \in {BigMul(a, b)}})

\* u64::pow(base, exp): the product of exp factors base, and whether a
\* multiplication on the way overflowed.
RECURSIVE pow64(_, _)
pow64(base, exp) ==
    IF exp = 0 THEN [val |-> U64(1), overflow |-> FALSE]
    ELSE Only({Only({[val |-> m.val, overflow |-> r.overflow \/ m.overflow] :
                       m \in {mul64(r.val, base)}}) :
                 r \in {pow64(base, exp - 1)}})

\* What max_level_size does: it returns a number or the process panics.
SizeOk(val) == [kind |-> "Ok", val |-> val]
SizePanic == [kind |-> "Panic", val |-> << >>]

\* An arithmetic overflow panics in a build with overflow checks and wraps in
\* a build without them.
size_outcomes(r) == IF r.overflow THEN {SizePanic, SizeOk(r.val)} ELSE {SizeOk(r.val)}

\* LSMConfig::max_level_size(level): the arithmetic, with its overflow flag.
max_level_size(self, level) ==
    IF level = 0
    THEN mul64(self.l0_compaction_trigger, self.target_file_size)
    ELSE Only({Only({[val |-> m.val, overflow |-> p.overflow \/ m.overflow] :
                       m \in {mul64(self.target_file_size, p.val)}}) :
                 p \in {pow64(self.level_multiplier, level)}})

\* 4 * 1024 * 1024, 2^16 and 2^32 as 64-bit integers.
MiB4 == <<0, 0, 64, 0, 0, 0, 0, 0>>
Pow2_16 == <<0, 0, 1, 0, 0, 0, 0, 0>>
Pow2_32 == <<0, 0, 0, 0, 1, 0, 0, 0>>

\* LSMConfig::default(), the fields max_level_size reads and max_levels.
DefaultConfig ==
    [l0_compaction_trigger |-> U64(3), level_multiplier |-> U64(10),
     target_file_size |-> MiB4, max_levels |-> 5]

\* The largest max_levels of a configuration.
MaxConfigLevels == 5

\* The configurations: every field is public, so any value can be set.
Configs ==
    [l0_compaction_trigger : {U64(3), Pow2_32},
     level_multiplier : {U64(0), U64(10), Pow2_16},
     target_file_size : {MiB4, Pow2_32},
     max_levels : {3, MaxConfigLevels}]

CfgInit ==
    /\ cfg \in Configs
    /\ cfg_size = [op |-> "none"]

\* A call of max_level_size(level) for a level of the configuration.
CfgMaxLevelSize ==
    /\ \E level \in 0..(cfg.max_levels - 1) :
       \E r \in {max_level_size(cfg, level)} :
       \E outcome \in size_outcomes(r) :
          cfg_size' = [op |-> "max_level_size", level |-> level, returned |-> outcome]
    /\ UNCHANGED cfg
    /\ UNCHANGED <<memVars, walVars, manVars, fsVars, sstVars>>

InitConfig == CfgInit /\ MemInit /\ mt_max_size = 60 /\ WalIdle /\ ManIdle /\ SstIdle

NextConfig == CfgMaxLevelSize

\* A configuration and calls of max_level_size for its levels.
SpecConfig == InitConfig /\ [][NextConfig]_vars


\* ---- Blocks read from bytes whose first entry may pass the entries ----

\* The lengths an entry header of those bytes names, and the number of bytes
\* that follow the header.
MaxCraftLen == 4

\* The bytes of a block of one restart point at offset 0: an entry header with
\* key_len and val_len, n bytes after it, the restart offset and the count.
CraftBlock(key_len, val_len, n) ==
    to_le_bytes(key_len) \o to_le_bytes(val_len) \o [i \in 1..n |-> 10 + i]
        \o to_le_bytes(0) \o to_le_bytes(1)

\* Those blocks: the header names the bytes that follow, fewer or more.
CraftBlocks ==
    {CraftBlock(key_len, val_len, n) : key_len \in 0..MaxCraftLen,
                                        val_len \in 0..MaxCraftLen, n \in 0..MaxCraftLen}

\* Bytes of such a block, which come from a file rather than from a builder.
BlockCraftInit ==
    /\ bb_data = << >>
    /\ bb_restart_points = << >>
    /\ bb_counter = 0
    /\ bb_restart_interval = 0
    /\ bb_pc = "bytes"
    /\ bb_log = << >>
    /\ bb_value_len = 0
    /\ bb_returned = "none"
    /\ blk_bytes \in CraftBlocks
    /\ blk = << >>
    /\ blk_get = << >>
    /\ it_offset = 0
    /\ it_results = << >>

\* The keys asked of a block read from bytes: every run of bytes after the
\* first header that can be taken for a key.
ReadQueryKeys(data) == {SubSeq(data, 9, 8 + n) : n \in 0..(Len(data) - 8)}

\* block.get(key) on a block read from bytes, called for each of the keys asked
BlockReadGet ==
    /\ bb_pc = "read"
    /\ blk.kind = "Ok"
    /\ blk_get = << >>
    /\ blk_get' = [key \in ReadQueryKeys(blk_bytes) |-> get(blk.val, key)]
    /\ UNCHANGED <<bb_data, bb_restart_points, bb_counter, bb_restart_interval, bb_pc,
                   bb_log, bb_value_len, bb_returned, blk_bytes, blk, it_offset, it_results>>
    /\ UNCHANGED <<cfgVars, memVars, walVars, manVars, fsVars, bloomVars>>

\* for item in block.iter() on a block read from bytes: every call of next()
\* up to the one that returns None or an error
BlockReadIterate ==
    /\ bb_pc = "read"
    /\ blk.kind = "Ok"
    /\ it_results = << >>
    /\ \E r \in {iter_loop(blk.val, 0, << >>)} :
           /\ it_offset' = r.current_offset
           /\ it_results' = r.results
    /\ UNCHANGED <<bb_data, bb_restart_points, bb_counter, bb_restart_interval, bb_pc,
                   bb_log, bb_value_len, bb_returned, blk_bytes, blk, blk_get>>
    /\ UNCHANGED <<cfgVars, memVars, walVars, manVars, fsVars, bloomVars>>

InitBlockRead ==
    CfgIdle /\ MemInit /\ mt_max_size = 60 /\ WalIdle /\ ManIdle /\ BloomIdle /\ BlockCraftInit

NextBlockRead == BlockFromBytes \/ BlockReadGet \/ BlockReadIterate

\* Block::from_bytes on the bytes of a block, then get and the iterator.
SpecBlockRead == InitBlockRead /\ [][NextBlockRead]_vars

\* ---- Claims about errors of the block and the log ----

\* C21: an add of an entry that cannot fit even in an empty block reports an
\* outcome other than the false of a full block. An add on a builder without
\* entries can only be refused for that reason, so no builder without entries
\* has answered false.
C21_OversizedEntryIsNotBlockFull ==
    ~(bb_pc = "build" /\ bb_data = << >> /\ bb_restart_points = <<0>>
          /\ bb_returned = "false")

\* The trailing restart count of a buffer of 4 bytes or more.
RestartCount(data) == from_le_bytes(SubSeq(data, Len(data) - 3, Len(data)))

\* C22: for every byte buffer from_bytes returns a Block or Corrupted and never
\* aborts; it returns Corrupted whenever the buffer is shorter than 4 bytes,
\* the trailing count is 0, or count * 4 bytes do not fit before the count.
C22_FromBytesNeverAborts ==
    bb_pc = "read" =>
        /\ blk.kind \in {"Ok", "Corrupted"}
        /\ (\/ Len(blk_bytes) < 4
            \/ RestartCount(blk_bytes) = 0
            \/ RestartCount(blk_bytes) > (Len(blk_bytes) - 4) \div 4)
               => blk.kind = "Corrupted"

\* C23: for every memtable and every start and end (start equal to end and
\* start above end included, where the result is empty), range(start, end)
\* yields exactly the entries, tombstones included, whose key k satisfies
\* start <= k < end, in strictly ascending key order.
C23_RangeHalfOpen ==
    mt_range.op = "range" =>
        /\ mt_range.returned.kind = "Ok"
        /\ LET items == mt_range.returned.items
           IN  /\ \A i \in 1..Len(items) :
                      /\ items[i].key \in DOMAIN mt_data
                      /\ items[i].entry = mt_data[items[i].key]
                      /\ slice_le(mt_range.start, items[i].key)
                      /\ slice_lt(items[i].key, mt_range.end)
                      /\ i > 1 => slice_lt(items[i - 1].key, items[i].key)
               /\ \A k \in DOMAIN mt_data :
                      (slice_le(mt_range.start, k) /\ slice_lt(k, mt_range.end))
                          => \E i \in 1..Len(items) : items[i].key = k

\* C24: the checksum covers every byte after the checksum field, the length
\* field included: a record with one byte of its length, op, key_len, val_len,
\* key or value changed and the stored checksum kept decodes to Corrupted.
C24_DamageDetected ==
    (wal_mode = "damage" /\ Len(rd_results) >= wal_mark) =>
        rd_results[wal_mark] = RdCorrupted

\* C25: a fully read record whose checksum matches its payload but whose op
\* byte is neither 0x01 nor 0x02 makes next return Corrupted, and no entry.
C25_UnknownOpIsCorrupted ==
    (wal_mode = "forge" /\ Len(rd_results) >= wal_mark) =>
        rd_results[wal_mark] = RdCorrupted

\* The second record, a Put with a key and a value, was given an unknown op
\* byte and a matching checksum; the reader returned the first record and
\* then Corrupted.
C25_Witness ==
    /\ wal_mode = "forge"
    /\ wal_mark = 2
    /\ wal_log[2].type = "Put"
    /\ wal_log[2].key # << >>
    /\ wal_log[2].value # << >>
    /\ Len(rd_results) >= 2
    /\ rd_results[1] = RdEntry(wal_log[1])
    /\ rd_results[2] = RdCorrupted

\* C27: once next has returned Corrupted for a record whose checksum does not
\* match, no later call of next on the same reader delivers an entry.
C27_NothingAfterCorrupted ==
    (wal_mode = "flip" /\ Len(rd_results) >= wal_mark
        /\ rd_results[wal_mark] = RdCorrupted) =>
        \A j \in (wal_mark + 1)..Len(rd_results) : rd_results[j].kind # "Entry"

\* C26: after truncate has returned Ok, offset() is 0 until the next append, a
\* new reader of the segment returns Ok(None) on its first call when nothing
\* was appended since, and the entries appended since the truncate are read
\* back, in order, as the only entries of the segment.
C26_TruncateEmptiesSegment ==
    Len(wal_dropped) >= 1 =>
        /\ wal_log = << >> => wal_offset = 0
        /\ \A j \in 1..Len(rd_results) :
              rd_results[j] = IF j <= Len(wal_log) THEN RdEntry(wal_log[j]) ELSE RdNone

\* A segment of two entries was truncated, one entry was appended afterwards,
\* and a reader returned that entry and then the end of the log.
C26_Witness ==
    /\ Len(wal_dropped) = 1
    /\ wal_dropped[1] = 2
    /\ Len(wal_log) = 1
    /\ Len(rd_results) >= 2
    /\ rd_results[1] = RdEntry(wal_log[1])
    /\ rd_results[2] = RdNone

\* What get(key) returns, of the entry, in a memtable with this map: nothing,
\* a tombstone or a value.
Held(data, key) == IF key \in DOMAIN data THEN Some(data[key].value) ELSE None

\* The replay has ended: next has returned something that is not an entry.
ReplayEnded ==
    /\ wal_mode = "crash"
    /\ rd_results # << >>
    /\ rd_results[Len(rd_results)].kind # "Entry"

C29_LevelsDisjoint ==
    \A l \in 2..Len(man.levels) :
        LET sstables == man.levels[l].sstables
        IN  \A i, j \in 1..Len(sstables) :
                (i # j /\ sstables[i].id # sstables[j].id) =>
                    ~Intersects(sstables[i], sstables[j].min_key, sstables[j].max_key)

\* C30: Manifest::new(max_levels) has version 1, next_sstable_id 1, wal_seq 1
\* and exactly max_levels levels, numbered 0..max_levels-1 and empty; no call
\* of add_sstable, remove_sstables, next_sstable_id or next_wal_seq changes the
\* number of levels, which therefore stays max_levels.
C30_LevelsAsConstructed ==
    /\ [](man_call.op = "new" =>
            /\ man.version = 1
            /\ man.next_sstable_id = 1
            /\ man.wal_seq = 1
            /\ Len(man.levels) = man_call.max_levels
            /\ \A l \in 1..Len(man.levels) :
                  man.levels[l] = [level |-> l - 1, sstables |-> << >>])
    /\ [][Len(man'.levels) = Len(man.levels)]_vars

\* A manifest made with max_levels = 2 has had three calls, the last one a
\* remove_sstables, a table is in level 1 and an id was handed out; it still
\* has two levels.
C30_Witness ==
    /\ man_calls = 3
    /\ man_call.op = "remove_sstables"
    /\ Len(man.levels) = 2
    /\ man.levels[2].sstables # << >>
    /\ man.next_sstable_id = 2

\* C31: every filter that BloomFilter::new or BloomFilter::with_bytes returns
\* has at least 64 bits and num_hashes in [1, 30], and no call of add or
\* may_contain on it divides by zero.
C31_FilterWellFormed ==
    /\ Len(bf_bits) * 8 >= 64
    /\ bf_num_hashes \in 1..30
    /\ ~BloomPanicked

\* ceil(bits_per_key * ln 2): ln 2 = 0.693147..., and for bits_per_key below
\* 200 no integer lies between bits_per_key * 0.693147 and bits_per_key * ln 2.
CeilLn2(bits_per_key) == (bits_per_key * 693147 + 999999) \div 1000000

\* C32: for every bits_per_key >= 0 the num_hashes of
\* BloomFilter::new(num_keys, bits_per_key) is ceil(bits_per_key * ln 2)
\* clamped to [1, 30].
C32_NumHashesIsCeilLn2 ==
    bf_query.made =>
        bf_num_hashes = (LET k == CeilLn2(bf_query.bits_per_key)
                         IN  IF k < 1 THEN 1 ELSE IF k > 30 THEN 30 ELSE k)

\* The bytes of a number without the zero bytes at its high end.
RECURSIVE Trim(_)
Trim(a) == IF a = << >> THEN a ELSE IF a[Len(a)] = 0 THEN Trim(SubSeq(a, 1, Len(a) - 1)) ELSE a

\* base^exp with every byte of it.
RECURSIVE BigPow(_, _)
BigPow(base, exp) == IF exp = 0 THEN <<1>> ELSE Trim(BigMul(BigPow(base, exp - 1), base))

\* l0_compaction_trigger * target_file_size for level 0 and
\* target_file_size * level_multiplier^level above it, as numbers.
LevelSize(self, level) ==
    IF level = 0 THEN Trim(BigMul(self.l0_compaction_trigger, self.target_file_size))
    ELSE Trim(BigMul(self.target_file_size, BigPow(self.level_multiplier, level)))

\* C33: for every configuration and every level below max_levels,
\* max_level_size(level) returns l0_compaction_trigger * target_file_size for
\* level 0 and target_file_size * level_multiplier^level above it, without
\* wrap-around; with the defaults 12 MiB, 40 MiB and 400 MiB for levels 0, 1, 2.
C33_LevelSizes ==
    cfg_size.op = "max_level_size" =>
        /\ cfg_size.returned.kind = "Ok"
        /\ Trim(cfg_size.returned.val) = LevelSize(cfg, cfg_size.level)
        /\ (cfg = DefaultConfig /\ cfg_size.level = 0) =>
              cfg_size.returned.val = <<0, 0, 192, 0, 0, 0, 0, 0>>
        /\ (cfg = DefaultConfig /\ cfg_size.level = 1) =>
              cfg_size.returned.val = <<0, 0, 128, 2, 0, 0, 0, 0>>
        /\ (cfg = DefaultConfig /\ cfg_size.level = 2) =>
              cfg_size.returned.val = <<0, 0, 0, 25, 0, 0, 0, 0>>

\* The sum over the keys of a map of key length + value length (0 for a
\* tombstone) + the fixed overhead.
RECURSIVE ExactSize(_, _)
ExactSize(data, keys) ==
    IF keys = {} THEN 0
    ELSE LET key == CHOOSE k \in keys : TRUE
         IN  Len(key) + (IF data[key].value.some THEN Len(data[key].value.val) ELSE 0)
                 + ENTRY_OVERHEAD + ExactSize(data, keys \ {key})

\* C34: after any put and delete calls size() is at least the sum over the
\* keys present of key length + current value length + 24; no call makes
\* size() smaller, and once is_full() is true it stays true.
C34_SizeNeverShrinks ==
    /\ [](mt_size >= ExactSize(mt_data, DOMAIN mt_data))
    /\ [][mt_size' >= mt_size /\ (is_full => is_full')]_vars

\* A value was overwritten by a shorter one, so that size() is above the sum,
\* a tombstone is present, and the memtable is full.
C34_Witness ==
    /\ mt_size > ExactSize(mt_data, DOMAIN mt_data)
    /\ \E key \in DOMAIN mt_data : ~mt_data[key].value.some
    /\ \E key \in DOMAIN mt_data : mt_data[key].value.some
    /\ is_full
    /\ mt_max_size = 60

\* The payload of the record that WalCraft wrote.
CraftedPayload ==
    LET start == RecStart(wal_mark)
    IN  SubSeq(wal_file, start + 9, Len(wal_file))

\* C35: for a fully read record whose checksum matches its payload, next
\* returns an entry or Corrupted and never aborts; a payload shorter than the 9
\* header bytes, or one whose key_len + val_len exceed what follows the header,
\* is reported as Corrupted.
C35_MalformedRecordIsCorrupted ==
    (wal_mode = "craft" /\ Len(rd_results) >= wal_mark) =>
        /\ rd_results[wal_mark].kind \in {"Entry", "Corrupted"}
        /\ (\/ Len(CraftedPayload) < 9
            \/ from_le_bytes(SubSeq(CraftedPayload, 2, 5))
                   + from_le_bytes(SubSeq(CraftedPayload, 6, 9)) > Len(CraftedPayload) - 9)
              => rd_results[wal_mark] = RdCorrupted

\* C36: after any sequence of create, open, append and truncate on a path,
\* offset() is the byte length of the segment file.
C36_OffsetIsFileLength == wal_offset = Len(wal_file)

\* C37: for the block of a builder to which no entry was added, read back from
\* the bytes of finish(), get(k) returns Ok(None) for every key k, not an
\* error, and the iterator returns no entry.
C37_EmptyBlockReads ==
    (bb_pc = "sealed" /\ bb_log = << >>) =>
        /\ blk.kind = "Ok"
        /\ blk_get # << >> => \A k \in BlockQueryKeys : blk_get[k] = BlockOk(None)
        /\ \A i \in 1..Len(it_results) : it_results[i] = IterNone

\* C38: for every block that from_bytes accepts, get and the iterator agree on
\* where an entry may end: get returns Some(v) for a key only when the iterator
\* returns that key with v, so no value holds bytes of the restart array or of
\* the count, and an entry that passes the end of the entries is an error for
\* get as it is for the iterator.
C38_GetAgreesWithIter ==
    (bb_pc = "read" /\ blk.kind = "Ok" /\ blk_get # << >> /\ it_results # << >>) =>
        \A key \in DOMAIN blk_get :
            /\ (blk_get[key].kind = "Ok" /\ blk_get[key].val.some) =>
                   \E i \in 1..Len(it_results) :
                       it_results[i] = BlockOk([key |-> key, value |-> blk_get[key].val.val])
            /\ it_results[1] = BlockCorrupted => blk_get[key] = BlockCorrupted

====
